---- MODULE Spec2Model ----
(***************************************************************************)
(* Order fulfilment and dispatch engine of the delivery API.               *)
(*                                                                         *)
(* The relational store is modelled at READ COMMITTED isolation: a handler *)
(* sees committed rows at each statement, and a commit makes the handler's *)
(* writes visible at once.  Every await of the Python code (a database     *)
(* statement, a commit, a cache call) is one step of the handler, so the   *)
(* handlers of concurrent requests interleave between them.  An ORM        *)
(* session keeps the rows it has loaded (the identity map); a later SELECT *)
(* of a row that is already loaded does not overwrite the loaded values.   *)
(*                                                                         *)
(* The enum member the services call OrderStatus.canceled and the one the  *)
(* admin router and models.py call OrderStatus.cancelled are the same      *)
(* state, written "cancelled" here.                                        *)
(***************************************************************************)
EXTENDS Integers, Sequences, FiniteSets, TLC

\* ---------------------------------------------------------------- bounds
NumProcs == 2
NumProducts == 2
MaxStock == 2
MaxQty == 2
MaxRequests == 2
MaxLines == 2
NumDrivers == 2
MaxTicks == 2

Procs == 1..NumProcs
Products == 1..NumProducts
\* a product id that has no row in the products table
MissingProduct == NumProducts + 1
ProductIds == 1..MissingProduct
Quantities == 1..MaxQty

None == "none"

NumStores == 2
Stores == 1..NumStores

\* product 1 is sold by store 2 and every other product by store 1, so
\* that sorting a cart by store changes the order of its lines
TwoStores == [p \in Products |-> IF p = 1 THEN 2 ELSE 1]

\* Idempotency-Key header values
Keys == {"k1", "k2"}

\* products.price (constant until a product update changes it)
InitPrice(p) == p + 1

\* ---------------------------------------------------------------- state
VARIABLES
    stock,      \* products.stock, committed value, per product
    price,      \* products.price, committed value, per product
    pstore,     \* products.store_id, per product
    orders,     \* committed rows of the orders table (with their items)
    idem,       \* committed rows of idempotency_keys, per key
    pcache,     \* redis key product:{id}: None or the cached snapshot
    ocache,     \* redis keys order:{id}: the cached snapshot of each cached id
    scache,     \* redis keys of the store side, <<name, store id>>: cached value
    now,        \* the clock, in minutes
    h,          \* per request handler: program counter and locals
    reqs,       \* number of requests started so far
    stock0,     \* (history) stock at the start
    resSum,     \* (history) per product, quantity of the reserves that succeeded
    relSum      \* (history) per product, quantity of the releases

vars == <<stock, price, pstore, orders, idem, pcache, ocache, scache, now, h, reqs, stock0, resSum, relSum>>

dbVars == <<stock, price, pstore, orders, idem>>
histVars == <<stock0, resSum, relSum>>

\* ---------------------------------------------------------------- helpers
\* redis: a keyspace is a function from the keys present to their values;
\* SETEX adds or replaces a key, DELETE removes it
NoKeys == [k \in {} |-> 0]
CacheSet(cache, k, value) ==
    [x \in DOMAIN cache \cup {k} |-> IF x = k THEN value ELSE cache[x]]
CacheDelete(cache, k) == [x \in DOMAIN cache \ {k} |-> cache[x]]

\* the keys of the store side: products:store:{id} is the key that
\* _invalidate_product_cache deletes, store:products:{id} the key under which
\* get_store_products caches, store:{id} the key under which get_store caches
ProductsOfStoreKey(store) == <<"products:store", store>>
StoreProductsKey(store) == <<"store:products", store>>
StoreKey(store) == <<"store", store>>
\* the list keys: the ids of all products (product service) and the ids of
\* the orders a driver can accept (driver service)
AllProductsKey == <<"products:all", 0>>
AvailableOrdersKey == <<"drivers:available_orders", 0>>
CacheDeleteAll(cache, ks) == [x \in DOMAIN cache \ ks |-> cache[x]]

\* an absent value (Python None, SQL NULL, a cache miss) is the empty tuple,
\* a present value v is <<v>>
Null == <<>>
Some(v) == <<v>>

\* users: the drivers, then one customer, one administrator, one merchant
Drivers == 1..NumDrivers
Customer == NumDrivers + 1
Admin == NumDrivers + 2
Merchant == NumDrivers + 3
Users == 1..(NumDrivers + 3)
Customers == {Customer}

\* a user who logged in as a driver and whom an administrator has since
\* made a store owner (user_service.update_user_role): the token still
\* carries the scopes of the driver role
Promoted == NumDrivers + 4
Callers == Users \cup {Promoted}

\* users.role
RoleOf(u) ==
    IF u \in Drivers THEN "driver"
    ELSE IF u = Customer THEN "customer"
    ELSE IF u = Admin THEN "admin"
    ELSE "store_owner"

\* the role the user had when the token was issued
TokenRoleOf(u) == IF u = Promoted THEN "driver" ELSE RoleOf(u)

\* stores.owner_id
StoreOwner(store) == IF store = 1 THEN Promoted ELSE Merchant

\* permissions.SCOPE_MATRIX, as create_access_token puts it in the token
SCOPE_MATRIX(role) ==
    CASE role = "customer" -> {"orders:create", "orders:read_own", "products:read"}
      [] role = "driver" -> {"orders:read", "orders:update_status", "location:update"}
      [] role = "store_owner" -> {"products:manage", "orders:read_store", "stores:manage"}
      [] role = "admin" -> {"*"}

\* dependencies.require_scope: the admin wildcard, or the scope itself
\* it reads the scopes of the token, not the user's current role
require_scope(u, scope) ==
    "*" \in SCOPE_MATRIX(TokenRoleOf(u)) \/ scope \in SCOPE_MATRIX(TokenRoleOf(u))

\* models.OrderStatus
OrderStatus ==
    {"pending", "confirmed", "assigned", "picked_up", "in_transit", "delivered", "cancelled"}

\* the window after which an assignment counts as expired, in minutes
ExpiryMinutes == 10

\* order_service.ORDER_CACHE_TTL = 300 seconds
OrderCacheMinutes == 5

\* the clock advances MaxTicks times, in steps of just over half the
\* window: an assignment is fresh after one step and expired after two
TickMinutes == ExpiryMinutes \div 2 + 1
MaxTime == MaxTicks * TickMinutes

IdleLocal ==
    [pc |-> "idle", kind |-> None, result |-> None, user |-> 0,
     oid |-> 0, newst |-> None, ord |-> Null, lock |-> 0, ts |-> 0, rows |-> <<>>,
     pid |-> 0, qty |-> 0, value |-> 0, detail |-> Null,
     key |-> Null, response |-> Null, early |-> FALSE, ran |-> FALSE, store |-> 0,
     outage |-> FALSE, cold |-> FALSE, ids |-> <<>>, found |-> <<>>, broken |-> FALSE,
     cart |-> <<>>, idx |-> 0, ret |-> None,
     prod |-> Null, product |-> Null, vitems |-> <<>>,
     sess |-> [p \in Products |-> Null],
     items |-> <<>>, total |-> 0, pend |-> <<>>,
     created |-> {}, reserved |-> [p \in Products |-> 0],
     short |-> FALSE]

\* the row of product p as a SELECT returns it
ProductRow(p) == [id |-> p, stock |-> stock[p], price |-> price[p], store_id |-> pstore[p]]

Idle(p) == h[p].pc \in {"idle", "done"}

\* a handler takes a new request: fresh session, fresh locals.  The
\* handlers are interchangeable: the request goes to the lowest handler
\* that has not served yet, and when all have, to the lowest free one
Free(p) ==
    \/ /\ h[p].pc = "idle"
       /\ \A q \in Procs : q < p => h[q].pc # "idle"
    \/ /\ h[p].pc = "done"
       /\ \A q \in Procs : h[q].pc # "idle" /\ (q < p => h[q].pc # "done")

Begin(p, l) ==
    /\ Free(p)
    /\ reqs < MaxRequests
    /\ reqs' = reqs + 1
    /\ h' = [h EXCEPT ![p] = l]

\* an exception leaves the handler; inside create_order's try block the
\* except clause rolls the session back, which drops the pending rows
\* the request is over: its session is closed and only what the request
\* was, what it returned and its history remain.  A request that came
\* with an Idempotency-Key returns to the middleware (call_next returns)
Finish(l, res) ==
    [IdleLocal EXCEPT !.pc = IF l.key = Null THEN "done" ELSE "i_commit",
                      !.key = l.key, !.early = l.early, !.ran = l.ran,
                      !.result = res, !.kind = l.kind, !.user = l.user,
                      !.oid = l.oid, !.store = l.store,
                      !.outage = l.outage, !.cold = l.cold, !.broken = l.broken,
                      !.pid = l.pid, !.qty = l.qty, !.cart = l.cart,
                      !.created = l.created, !.reserved = l.reserved,
                      !.short = l.short, !.detail = l.detail,
                      !.response = l.response]

Raise(l, err) == Finish(l, err)

\* every redis call of the services sits in try ... except Exception: pass.
\* While redis cannot be reached for a request (l.outage) each of its calls
\* raises: a GET yields nothing, a SETEX or DELETE leaves the keyspace as it
\* was, and the handler goes on as after a call that worked
Hit(l, present) == ~l.outage /\ present
Redis(l, cache, written) == IF l.outage THEN cache ELSE written
AfterCacheCallMut(l, next) == IF l.outage THEN Finish(l, "RedisError") ELSE next
AfterCacheCall(l, next) == next

\* ------------------------------------------------- Stock Ledger: reserve
\* product_service.reserve_stock: the stock test before the decrement
\* exceptions.InsufficientStockError(product_name, requested, available):
\* the numbers its message carries
InsufficientStockError(requested, available) ==
    Some([requested |-> requested, available |-> available])

InsufficientStockMut(available, quantity) == FALSE
InsufficientStock(available, quantity) == available < quantity

\* models.Order(...) of one merchant group, as create_order builds it
NewOrder(l, store) ==
    [user_id |-> l.user, store_id |-> store, driver_id |-> 0,
     status |-> "pending", assigned_at |-> -1,
     total_price |-> l.total, items |-> l.items]

\* create_order, top of the inner loop: build the OrderItem of validated
\* line i, add it to the group's total, and call reserve_stock
BeginItemMut(l, i) ==
    LET v == l.vitems[i] IN
    [l EXCEPT !.idx = i, !.pid = v.pid, !.qty = v.qty,
              !.items = Append(l.items, [product_id |-> v.pid, quantity |-> v.qty,
                                         price_at_purchase |-> price[v.pid]]),
              !.total = l.total + v.price * v.qty,
              !.pc = "r_select"]
BeginItem(l, i) ==
    LET v == l.vitems[i] IN
    [l EXCEPT !.idx = i, !.pid = v.pid, !.qty = v.qty,
              !.items = Append(l.items, [product_id |-> v.pid, quantity |-> v.qty,
                                         price_at_purchase |-> v.price]),
              !.total = l.total + v.price * v.qty,
              !.pc = "r_select"]

\* create_order after reserve_stock returned for line idx: at the end of a
\* merchant group the Order is added to the session; then the next line,
\* or the final commit
AfterReserve(l) ==
    LET i == l.idx
        n == Len(l.vitems)
        lastOfGroup == i = n \/ l.vitems[i + 1].store_id # l.vitems[i].store_id
        l1 == IF lastOfGroup
              THEN [l EXCEPT !.pend = Append(l.pend, NewOrder(l, l.vitems[i].store_id)),
                             !.items = <<>>, !.total = 0]
              ELSE l
    IN  IF l.kind = "reserve" THEN Finish(l, "ok")
        ELSE IF i = n THEN [l1 EXCEPT !.pc = "c_commit"]
        ELSE BeginItem(l1, i + 1)

\* the ledger is exercised on one product and on a missing one: the rows
\* of different products do not interact
LedgerProducts == {1}

\* a standalone reserve_stock(product_id, quantity) call
reserve_stock(p, pid, q) ==
    /\ Begin(p, [IdleLocal EXCEPT !.pc = "r_select", !.kind = "reserve",
                                  !.pid = pid, !.qty = q])
    /\ UNCHANGED <<now, dbVars, pcache, ocache, scache, histVars>>

StartReserve(p) ==
    \E pid \in LedgerProducts \cup {MissingProduct}, q \in Quantities : reserve_stock(p, pid, q)

\* reserve_stock: SELECT the product, NotFound if there is no row,
\* InsufficientStockError if product.stock < quantity
r_select(p) ==
    LET l == h[p] IN
    /\ l.pc = "r_select"
    /\ h' = [h EXCEPT ![p] =
            IF l.pid \notin Products THEN Raise(l, "NotFound")
            ELSE LET row == IF l.sess[l.pid] = Null THEN Some(ProductRow(l.pid))
                            ELSE l.sess[l.pid]
                 IN IF InsufficientStock(row[1].stock, l.qty)
                    THEN Raise([l EXCEPT !.sess[l.pid] = row,
                                         !.detail = InsufficientStockError(l.qty, row[1].stock)],
                               "InsufficientStock")
                    ELSE [l EXCEPT !.sess[l.pid] = row, !.pc = "r_commit"]]
    /\ UNCHANGED <<now, dbVars, pcache, ocache, scache, reqs, histVars>>

\* reserve_stock: product.stock -= quantity; commit.  The flush writes the
\* value computed from the loaded row; the commit also inserts the orders
\* that create_order has added to the session so far
r_commit(p) ==
    LET l == h[p]
        newStock == l.sess[l.pid][1].stock - l.qty
        n == Len(orders)
    IN
    /\ l.pc = "r_commit"
    /\ stock' = [stock EXCEPT ![l.pid] = newStock]
    /\ orders' = orders \o l.pend
    /\ resSum' = [resSum EXCEPT ![l.pid] = @ + l.qty]
    /\ h' = [h EXCEPT ![p] =
            [l EXCEPT !.sess[l.pid] = Some([l.sess[l.pid][1] EXCEPT !.stock = newStock]),
                      !.pend = <<>>,
                      !.created = l.created \cup ((n + 1)..(n + Len(l.pend))),
                      !.reserved[l.pid] = @ + l.qty,
                      !.pc = "r_refresh"]]
    /\ UNCHANGED <<now, price, pstore, idem, pcache, ocache, scache, reqs, stock0, relSum>>

\* reserve_stock: refresh(product) reloads the row
r_refresh(p) ==
    LET l == h[p] IN
    /\ l.pc = "r_refresh"
    /\ h' = [h EXCEPT ![p] = [l EXCEPT !.sess[l.pid] = Some(ProductRow(l.pid)),
                                       !.pc = "r_inval"]]
    /\ UNCHANGED <<now, dbVars, pcache, ocache, scache, reqs, histVars>>

\* _invalidate_product_cache: delete the product's key
r_inval(p) ==
    LET l == h[p] IN
    /\ l.pc = "r_inval"
    /\ pcache' = Redis(l, pcache, [pcache EXCEPT ![l.pid] = Null])
    /\ scache' = Redis(l, scache, CacheDeleteAll(scache, {AllProductsKey, ProductsOfStoreKey(l.sess[l.pid][1].store_id)}))
    /\ h' = [h EXCEPT ![p] = AfterCacheCall(l, [l EXCEPT !.pc = "r_cache"])]
    /\ UNCHANGED <<now, dbVars, reqs, histVars, ocache>>

\* _cache_product: store the snapshot of the refreshed row
r_cache(p) ==
    LET l == h[p] IN
    /\ l.pc = "r_cache"
    /\ pcache' = Redis(l, pcache, [pcache EXCEPT ![l.pid] = l.sess[l.pid]])
    /\ h' = [h EXCEPT ![p] = AfterCacheCall(l, AfterReserve(l))]
    /\ UNCHANGED <<now, dbVars, reqs, histVars, ocache, scache>>

\* ------------------------------------------------- Stock Ledger: release
\* update_order_status, cancellation loop: release_stock for item i
BeginRelease(l, i) ==
    [l EXCEPT !.idx = i, !.pid = l.ord[1].items[i].product_id,
              !.qty = l.ord[1].items[i].quantity, !.pc = "l_update"]

\* the caller's continuation after release_stock returned: a standalone
\* call is over; update_order_status releases the next item, or goes on
\* to set the status
AfterRelease(l) ==
    IF l.kind = "release" THEN Finish(l, "ok")
    ELSE IF l.idx < Len(l.ord[1].items) THEN BeginRelease(l, l.idx + 1)
    ELSE [l EXCEPT !.pc = "s_commit"]

\* a standalone release_stock(product_id, quantity) call
StartRelease(p) ==
    \E pid \in LedgerProducts, q \in Quantities :
        /\ Begin(p, [IdleLocal EXCEPT !.pc = "l_update", !.kind = "release",
                                      !.pid = pid, !.qty = q])
        /\ UNCHANGED <<now, dbVars, pcache, ocache, scache, histVars>>

\* release_stock: .values(stock=models.Product.stock + quantity), computed
\* by the database from the committed value
ReleasedMut(current, quantity) == current + 1
Released(current, quantity) == current + quantity

\* release_stock: UPDATE products SET stock = stock + quantity; commit.
\* The row is locked from the UPDATE to the commit, so no other write
\* comes between them: one step
l_update(p) ==
    LET l == h[p] IN
    /\ l.pc = "l_update"
    /\ stock' = [stock EXCEPT ![l.pid] = Released(@, l.qty)]
    /\ relSum' = [relSum EXCEPT ![l.pid] = @ + l.qty]
    /\ h' = [h EXCEPT ![p] = [l EXCEPT !.pc = "l_select"]]
    /\ UNCHANGED <<now, price, pstore, idem, orders, pcache, ocache, scache, reqs, stock0, resSum>>

\* release_stock: SELECT the product to learn its store
l_select(p) ==
    LET l == h[p] IN
    /\ l.pc = "l_select"
    /\ h' = [h EXCEPT ![p] =
            [l EXCEPT !.sess[l.pid] = IF l.sess[l.pid] = Null
                                      THEN Some(ProductRow(l.pid)) ELSE l.sess[l.pid],
                      !.pc = "l_inval"]]
    /\ UNCHANGED <<now, dbVars, pcache, ocache, scache, reqs, histVars>>

\* release_stock: _invalidate_product_cache
l_inval(p) ==
    LET l == h[p] IN
    /\ l.pc = "l_inval"
    /\ pcache' = Redis(l, pcache, [pcache EXCEPT ![l.pid] = Null])
    /\ scache' = Redis(l, scache, CacheDeleteAll(scache, {AllProductsKey, ProductsOfStoreKey(l.sess[l.pid][1].store_id)}))
    /\ h' = [h EXCEPT ![p] = AfterCacheCall(l, [l EXCEPT !.pc = "l_cache"])]
    /\ UNCHANGED <<now, dbVars, reqs, histVars, ocache>>

\* release_stock: _cache_product
l_cache(p) ==
    LET l == h[p] IN
    /\ l.pc = "l_cache"
    /\ pcache' = Redis(l, pcache, [pcache EXCEPT ![l.pid] = l.sess[l.pid]])
    /\ h' = [h EXCEPT ![p] = AfterCacheCall(l, AfterRelease(l))]
    /\ UNCHANGED <<now, dbVars, reqs, histVars, ocache, scache>>

\* ------------------------------------------------- Order Composer
Lines == [pid : ProductIds, qty : Quantities]

\* OrderCreate.items: 1..MaxLines lines, no product twice
\* (schemas/order.py validate_unique_products)
Carts ==
    {c \in UNION {[1..n -> Lines] : n \in 1..MaxLines} :
        \A i \in DOMAIN c, j \in DOMAIN c : i # j => c[i].pid # c[j].pid}

\* list.sort(key=store_id): a stable sort, ascending by store
InsertByStore(x, t) ==
    LET k == Cardinality({i \in DOMAIN t : t[i].store_id <= x.store_id})
    IN  SubSeq(t, 1, k) \o <<x>> \o SubSeq(t, k + 1, Len(t))

SortByStoreMut(s) == s
RECURSIVE SortByStore(_)
SortByStore(s) ==
    IF s = <<>> THEN <<>>
    ELSE InsertByStore(s[Len(s)], SortByStore(SubSeq(s, 1, Len(s) - 1)))

\* create_order, validation loop: get_product of line i (the first of the
\* two reads of the line)
BeginLine(l, i) ==
    [l EXCEPT !.idx = i, !.pid = l.cart[i].pid, !.qty = l.cart[i].qty,
              !.pc = "gp_cache", !.ret = "first"]

\* check_stock_availability: product.stock >= quantity
StockAvailable(row, quantity) == row.stock >= quantity

\* get_product returned l.prod to create_order's validation loop.
\* "first":  product = get_product(id); then check_stock_availability
\*           reads the product again.
\* "check":  not enough stock raises InsufficientStockError (outside the
\*           try block); otherwise the line is validated with the product
\*           of the first read, and after the last line the validated
\*           lines are sorted by store and the first one is reserved.
\* "update": update_product goes on with the product it got.
\* "all":    get_all_products appends the product to its answer and gets
\*           the next id of the cached list; after the last it returns.
\* short records (history) that the line asked for more than the database
\* held at the moment of the check.
ReturnProduct(l, dbStock) ==
    IF l.ret = "first"
    THEN [l EXCEPT !.product = l.prod, !.pc = "gp_cache", !.ret = "check"]
    ELSE IF l.ret = "update"
    THEN [l EXCEPT !.product = l.prod, !.pc = "u_commit"]
    ELSE IF l.ret = "all"
    THEN LET l1 == [l EXCEPT !.found = Append(l.found, l.prod[1])] IN
         IF l.idx < Len(l.ids)
         THEN [l1 EXCEPT !.idx = l.idx + 1, !.pid = l.ids[l.idx + 1], !.pc = "gp_cache"]
         ELSE Finish([l1 EXCEPT !.response = Some(l1.found)], "ok")
    ELSE LET l1 == [l EXCEPT !.short = l.short \/ dbStock < l.qty] IN
         IF ~StockAvailable(l.prod[1], l.qty)
         THEN Raise([l1 EXCEPT !.detail = InsufficientStockError(l.qty, l.product[1].stock)],
                    "InsufficientStock")
         ELSE LET v == [pid |-> l.product[1].id, qty |-> l.qty,
                        price |-> l.product[1].price,
                        store_id |-> l.product[1].store_id]
                  l2 == [l1 EXCEPT !.vitems = Append(l.vitems, v)]
              IN  IF l.idx < Len(l.cart)
                  THEN BeginLine(l2, l.idx + 1)
                  ELSE BeginItem([l2 EXCEPT !.vitems = SortByStore(l2.vitems)], 1)

\* POST /orders: create_order(cart, customer)
create_order(p, c, u) ==
    /\ Begin(p, BeginLine([IdleLocal EXCEPT !.kind = "create", !.cart = c,
                                            !.user = u], 1))
    /\ UNCHANGED <<now, dbVars, pcache, ocache, scache, histVars>>

StartCreate(p) == \E c \in Carts, u \in Customers : create_order(p, c, u)

\* get_product: try the cache; a hit is returned as a detached Product
gp_cache(p) ==
    LET l == h[p] IN
    /\ l.pc = "gp_cache"
    /\ h' = [h EXCEPT ![p] = AfterCacheCall(l,
            IF Hit(l, l.pid \in Products /\ pcache[l.pid] # Null)
            THEN ReturnProduct([l EXCEPT !.prod = pcache[l.pid]], stock[l.pid])
            ELSE [l EXCEPT !.pc = "gp_db"])]
    /\ UNCHANGED <<now, dbVars, pcache, ocache, scache, reqs, histVars>>

\* get_product, cache miss: SELECT the product; NotFound if there is no
\* row.  A row the session has loaded before keeps its loaded values
gp_db(p) ==
    LET l == h[p] IN
    /\ l.pc = "gp_db"
    /\ h' = [h EXCEPT ![p] =
            IF l.pid \notin Products
            THEN Raise([l EXCEPT !.short = TRUE], "NotFound")
            ELSE LET row == IF l.sess[l.pid] = Null THEN Some(ProductRow(l.pid))
                            ELSE l.sess[l.pid]
                 IN [l EXCEPT !.sess[l.pid] = row, !.prod = row, !.pc = "gp_set"]]
    /\ UNCHANGED <<now, dbVars, pcache, ocache, scache, reqs, histVars>>

\* get_product, cache miss: _cache_product, then return the row
gp_set(p) ==
    LET l == h[p] IN
    /\ l.pc = "gp_set"
    /\ pcache' = Redis(l, pcache, [pcache EXCEPT ![l.pid] = l.prod])
    /\ h' = [h EXCEPT ![p] = AfterCacheCall(l, ReturnProduct(l, stock[l.pid]))]
    /\ UNCHANGED <<now, dbVars, reqs, histVars, ocache, scache>>

\* create_order: the commit after the last merchant group inserts the
\* orders still pending in the session
c_commit(p) ==
    LET l == h[p]
        n == Len(orders)
    IN
    /\ l.pc = "c_commit"
    /\ orders' = orders \o l.pend
    /\ h' = [h EXCEPT ![p] =
            [l EXCEPT !.pend = <<>>,
                      !.created = l.created \cup ((n + 1)..(n + Len(l.pend))),
                      !.pc = "c_post"]]
    /\ UNCHANGED <<now, stock, price, pstore, idem, pcache, ocache, scache, reqs, histVars>>

\* create_order after the commit: invalidate the order keys, reload and
\* cache each created order, return them
c_post(p) ==
    LET l == h[p] IN
    /\ l.pc = "c_post"
    /\ ocache' = Redis(l, ocache, [x \in DOMAIN ocache \cup l.created |->
                    IF x \in l.created THEN orders[x] ELSE ocache[x]])
    /\ scache' = Redis(l, scache, CacheDelete(scache, AvailableOrdersKey))
    /\ h' = [h EXCEPT ![p] = AfterCacheCall(l, Finish(l, "ok"))]
    /\ UNCHANGED <<now, dbVars, pcache, reqs, histVars>>

ReserveSteps(p) == r_select(p) \/ r_commit(p) \/ r_refresh(p) \/ r_inval(p) \/ r_cache(p)
ReleaseSteps(p) == l_update(p) \/ l_select(p) \/ l_inval(p) \/ l_cache(p)
GetProductSteps(p) == gp_cache(p) \/ gp_db(p) \/ gp_set(p)
CreateSteps(p) == GetProductSteps(p) \/ ReserveSteps(p) \/ c_commit(p) \/ c_post(p)

\* ------------------------------------------------- product update
\* ProductUpdate.price: a positive number; both values differ from every
\* initial price
Prices == {1, InitPrice(NumProducts) + 1}

\* product_service.update_product(product_id, {price: value}, admin):
\* it starts with get_product.  (An admin skips the ownership test.)
update_product(p, pid, v) ==
    /\ Begin(p, [IdleLocal EXCEPT !.kind = "update_product", !.user = Admin,
                                  !.pid = pid, !.value = v,
                                  !.ret = "update", !.pc = "gp_cache"])
    /\ UNCHANGED <<now, dbVars, pcache, ocache, scache, histVars>>

StartUpdateProduct(p) == \E pid \in Products, v \in Prices : update_product(p, pid, v)

\* get_product returned a row of this session (cache miss) or a detached
\* Product built from the cache, which the session does not know
Attached(l) == l.sess[l.pid] # Null

\* update_product: setattr(product, "price", value); commit.  Only an
\* attached row is flushed
u_commit(p) ==
    LET l == h[p] IN
    /\ l.pc = "u_commit"
    /\ price' = IF Attached(l) THEN [price EXCEPT ![l.pid] = l.value] ELSE price
    /\ h' = [h EXCEPT ![p] = [l EXCEPT !.pc = "u_refresh"]]
    /\ UNCHANGED <<now, stock, pstore, idem, orders, pcache, ocache, scache, reqs, histVars>>

\* update_product: refresh(product) raises for a detached Product
u_refresh(p) ==
    LET l == h[p] IN
    /\ l.pc = "u_refresh"
    /\ h' = [h EXCEPT ![p] =
            IF Attached(l)
            THEN [l EXCEPT !.sess[l.pid] = Some(ProductRow(l.pid)), !.pc = "u_inval"]
            ELSE Raise(l, "InvalidRequest")]
    /\ UNCHANGED <<now, dbVars, pcache, ocache, scache, reqs, histVars>>

\* update_product: _invalidate_product_cache
u_inval(p) ==
    LET l == h[p] IN
    /\ l.pc = "u_inval"
    /\ pcache' = Redis(l, pcache, [pcache EXCEPT ![l.pid] = Null])
    /\ scache' = Redis(l, scache, CacheDeleteAll(scache, {AllProductsKey, ProductsOfStoreKey(l.sess[l.pid][1].store_id)}))
    /\ h' = [h EXCEPT ![p] = AfterCacheCall(l, [l EXCEPT !.pc = "u_cache"])]
    /\ UNCHANGED <<now, dbVars, reqs, histVars, ocache>>

\* update_product: _cache_product of the refreshed row, return it
u_cache(p) ==
    LET l == h[p] IN
    /\ l.pc = "u_cache"
    /\ pcache' = Redis(l, pcache, [pcache EXCEPT ![l.pid] = l.sess[l.pid]])
    /\ h' = [h EXCEPT ![p] = AfterCacheCall(l, Finish(l, "ok"))]
    /\ UNCHANGED <<now, dbVars, reqs, histVars, ocache, scache>>

UpdateProductSteps(p) ==
    GetProductSteps(p) \/ u_commit(p) \/ u_refresh(p) \/ u_inval(p) \/ u_cache(p)

\* ------------------------------------------------- idempotency middleware
\* the HTTP answer of POST /orders: 200 with the created orders, or the
\* status and detail of the APIException that left create_order
StatusCode(result) ==
    CASE result = "ok" -> 200
      [] result = "InsufficientStock" -> 400
      [] result = "NotFound" -> 404
      [] OTHER -> 500

ResponseOf(l) ==
    [status_code |-> StatusCode(l.result),
     body |-> IF l.result = "ok" THEN [orders |-> l.created]
              ELSE [detail |-> <<l.result, l.detail>>]]

\* json.dumps / json.loads of a JSON value, and hashlib.sha256 of the key
Dumps(value) == <<"json", value>>
LoadsMut(text) == [status_code |-> text[2].status_code, body |-> Null]
Loads(text) == text[2]
KeyHash(k) == <<"sha256", k>>

JSONResponse(content, status_code) == [status_code |-> status_code, body |-> content]

\* dispatch: cache_payload of the response call_next returned
CachePayloadMut(l) == [status_code |-> 200, body |-> ResponseOf(l).body]
CachePayload(l) == [status_code |-> ResponseOf(l).status_code, body |-> ResponseOf(l).body]

\* dispatch, "if existing": a row for the key hash is replayed, whatever
\* its created_at
ReplayableMut(existing, t) == FALSE
Replayable(existing, t) == existing # Null

\* db.add(record); commit: the primary key key_hash refuses a second row
\* (the IntegrityError is swallowed and the session rolled back)
InsertKeyMut(table, k, record) == [table EXCEPT ![k] = Some(record)]
InsertKey(table, k, record) ==
    IF table[k] = Null THEN [table EXCEPT ![k] = Some(record)] ELSE table

\* POST /orders with an Idempotency-Key header: dispatch opens its own
\* session.  early records (history) that no row for the key was
\* committed when the request arrived
submit_order(p, k, c, u) ==
    /\ Begin(p, [IdleLocal EXCEPT !.kind = "create", !.cart = c, !.user = u,
                                  !.key = Some(k), !.early = (idem[k] = Null),
                                  !.pc = "i_select"])
    /\ UNCHANGED <<now, dbVars, pcache, ocache, scache, histVars>>

\* dispatch: SELECT the IdempotencyKey row; replay it, or call_next
\* (create_order)
i_select(p) ==
    LET l == h[p]
        existing == idem[l.key[1]]
    IN
    /\ l.pc = "i_select"
    /\ h' = [h EXCEPT ![p] =
            IF Replayable(existing, now)
            THEN LET payload == Loads(existing[1].response_payload) IN
                 [l EXCEPT !.pc = "done",
                           !.response = Some(JSONResponse(payload.body, payload.status_code))]
            ELSE BeginLine([l EXCEPT !.ran = TRUE], 1)]
    /\ UNCHANGED <<now, dbVars, pcache, ocache, scache, reqs, histVars>>

\* dispatch after call_next: store the record, answer with the payload
i_commit(p) ==
    LET l == h[p]
        cache_payload == CachePayload(l)
        record == [key_hash |-> KeyHash(l.key[1]),
                   response_payload |-> Dumps(cache_payload),
                   created_at |-> now]
    IN
    /\ l.pc = "i_commit"
    /\ idem' = InsertKey(idem, l.key[1], record)
    /\ h' = [h EXCEPT ![p] =
            [l EXCEPT !.pc = "done",
                      !.response = Some(JSONResponse(cache_payload.body,
                                                     cache_payload.status_code))]]
    /\ UNCHANGED <<now, stock, price, pstore, orders, pcache, ocache, scache, reqs, histVars>>

IdempotencySteps(p) == i_select(p) \/ i_commit(p)

\* ------------------------------------------------- orders: common
\* the ids a request can name: every order, and one id without a row
OrderIds == 1..(Len(orders) + 1)

Exists(o) == o \in DOMAIN orders

\* the row lock of SELECT ... FOR UPDATE, held until commit or rollback
LockedByOther(o, p) == \E q \in Procs \ {p} : h[q].lock = o

\* the UPDATE the unit of work emits at flush: only the columns whose
\* value differs from the loaded one are written, onto the current row
FlushOrder(row, loaded, new) ==
    [row EXCEPT !.status = IF new.status # loaded.status THEN new.status ELSE @,
                !.driver_id = IF new.driver_id # loaded.driver_id THEN new.driver_id ELSE @,
                !.assigned_at = IF new.assigned_at # loaded.assigned_at
                                THEN new.assigned_at ELSE @]

\* an UPDATE waits for the row lock another transaction holds
CanWrite(o, p, loaded, new) == new = loaded \/ ~LockedByOther(o, p)

\* ------------------------------------------------- Dispatch: accept
\* accept_order_atomic: the two tests on the locked row
AcceptErrorMut(o, driver) ==
    IF o.status \notin {"pending", "confirmed", "assigned"} THEN "BadRequest" ELSE None
AcceptError(o, driver) ==
    IF o.status \notin {"pending", "confirmed"} THEN "BadRequest"
    ELSE IF o.driver_id # 0 /\ o.driver_id # driver THEN "BadRequest"
    ELSE None

\* SELECT ... FOR UPDATE waits while another transaction holds the row
RowLockFreeMut(o, p) == TRUE
RowLockFree(o, p) == ~LockedByOther(o, p)

\* PUT /orders/{id}/accept: the scope, then the driver role
accept_order(p, o, u) ==
    /\ Begin(p, LET l == [IdleLocal EXCEPT !.kind = "accept", !.user = u, !.oid = o] IN
                IF ~require_scope(u, "orders:update_status") \/ RoleOf(u) # "driver"
                THEN Finish(l, "Forbidden")
                ELSE [l EXCEPT !.pc = "a_select"])
    /\ UNCHANGED <<now, dbVars, pcache, ocache, scache, histVars>>

StartAccept(p) == \E u \in Users, o \in OrderIds : accept_order(p, o, u)

\* accept_order_atomic: lock and load the order, test it, and set driver,
\* status and assigned_at on the loaded row
a_select(p) ==
    LET l == h[p] IN
    /\ l.pc = "a_select"
    /\ RowLockFree(l.oid, p)
    /\ h' = [h EXCEPT ![p] =
            IF ~Exists(l.oid) THEN [l EXCEPT !.pc = "a_rollback", !.result = "NotFound"]
            ELSE LET row == orders[l.oid]
                     err == AcceptError(row, l.user)
                 IN  IF err # None
                     THEN [l EXCEPT !.lock = l.oid, !.ord = Some(row),
                                    !.pc = "a_rollback", !.result = err]
                     ELSE [l EXCEPT !.lock = l.oid, !.ord = Some(row), !.ts = now,
                                    !.pc = "a_commit"]]
    /\ UNCHANGED <<now, dbVars, pcache, ocache, scache, reqs, histVars>>

\* accept_order_atomic: commit, which releases the row lock
a_commit(p) ==
    LET l == h[p]
        loaded == l.ord[1]
        new == [loaded EXCEPT !.driver_id = l.user, !.status = "assigned",
                              !.assigned_at = l.ts]
    IN
    /\ l.pc = "a_commit"
    /\ orders' = [orders EXCEPT ![l.oid] = FlushOrder(@, loaded, new)]
    /\ h' = [h EXCEPT ![p] = [l EXCEPT !.lock = 0, !.pc = "a_post"]]
    /\ UNCHANGED <<now, stock, price, pstore, idem, pcache, ocache, scache, reqs, histVars>>

\* accept_order_atomic, except clause: rollback, which releases the lock
a_rollback(p) ==
    LET l == h[p] IN
    /\ l.pc = "a_rollback"
    /\ h' = [h EXCEPT ![p] = Finish(l, l.result)]
    /\ UNCHANGED <<now, dbVars, pcache, ocache, scache, reqs, histVars>>

\* an exception after the commit (l.broken: the reload of the order or the
\* SELECT of notify_customer raises) reaches accept_order_atomic's except
\* clause, or ends the request with its session: the rollback finds nothing
\* to undo, and the router answers 400
RollbackAfterCommitMut(table, o, loaded) == [table EXCEPT ![o] = loaded]
RollbackAfterCommit(table, o, loaded) == table

\* after the commit: invalidate the order keys, reload the order, notify
\* the customer and broadcast
a_post(p) ==
    LET l == h[p] IN
    /\ l.pc = "a_post"
    /\ ocache' = Redis(l, ocache, CacheDelete(ocache, l.oid))
    /\ scache' = Redis(l, scache, CacheDelete(scache, AvailableOrdersKey))
    /\ orders' = IF l.broken THEN RollbackAfterCommit(orders, l.oid, l.ord[1]) ELSE orders
    /\ h' = [h EXCEPT ![p] = AfterCacheCall(l,
                IF l.kind = "driver_accept" THEN [l EXCEPT !.pc = "da_inval"]
                ELSE Finish(l, IF l.broken THEN "BadRequest" ELSE "ok"))]
    /\ UNCHANGED <<now, stock, price, pstore, idem, pcache, reqs, histVars>>

AcceptSteps(p) == a_select(p) \/ a_commit(p) \/ a_rollback(p) \/ a_post(p)

\* ------------------------------------------------- State Machine
\* PUT /orders/{id}/status: the scope is the only test on the caller
update_status(p, o, u, st) ==
    /\ Begin(p, LET l == [IdleLocal EXCEPT !.kind = "status", !.user = u,
                                           !.oid = o, !.newst = st] IN
                IF ~require_scope(u, "orders:update_status")
                THEN Finish(l, "Forbidden")
                ELSE [l EXCEPT !.pc = "s_select"])
    /\ UNCHANGED <<now, dbVars, pcache, ocache, scache, histVars>>

StartStatus(p) ==
    \E u \in Callers, o \in OrderIds, st \in OrderStatus : update_status(p, o, u, st)

\* a status name outside the enum
BadStatus == "bogus"

\* PATCH /drivers/delivery-status/{id}: the driver role
StartDeliveryStatus(p) ==
    \E u \in Users, o \in OrderIds, st \in OrderStatus \cup {BadStatus} :
        /\ Begin(p, LET l == [IdleLocal EXCEPT !.kind = "dstatus", !.user = u,
                                               !.oid = o, !.newst = st] IN
                    IF RoleOf(u) # "driver"
                    THEN Finish(l, "Forbidden")
                    ELSE [l EXCEPT !.pc = "d_select"])
        /\ UNCHANGED <<now, dbVars, pcache, ocache, scache, histVars>>

\* update_delivery_status: load the order; it must be the caller's
d_select(p) ==
    LET l == h[p] IN
    /\ l.pc = "d_select"
    /\ h' = [h EXCEPT ![p] =
            IF ~Exists(l.oid) THEN Finish(l, "NotFound")
            ELSE IF orders[l.oid].driver_id # l.user THEN Finish(l, "PermissionDenied")
            ELSE [l EXCEPT !.ord = Some(orders[l.oid]), !.pc = "s_select"]]
    /\ UNCHANGED <<now, dbVars, pcache, ocache, scache, reqs, histVars>>

\* update_order_status: load the order (a row the session already holds
\* keeps its loaded values), parse the status, and for a cancellation
\* start releasing the stock of the items
s_select(p) ==
    LET l == h[p]
        l1 == IF l.ord = Null /\ Exists(l.oid)
              THEN [l EXCEPT !.ord = Some(orders[l.oid])] ELSE l
    IN
    /\ l.pc = "s_select"
    /\ h' = [h EXCEPT ![p] =
            IF l1.ord = Null THEN Finish(l, "NotFound")
            ELSE IF l.newst \notin OrderStatus THEN Finish(l, "BadRequest")
            ELSE IF l.newst = "cancelled" /\ Len(l1.ord[1].items) > 0
                 THEN BeginRelease(l1, 1)
            ELSE [l1 EXCEPT !.pc = "s_commit"]]
    /\ UNCHANGED <<now, dbVars, pcache, ocache, scache, reqs, histVars>>

\* update_order_status: the values set on the loaded order
StatusUpdate(loaded, st) ==
    IF st = "cancelled"
    THEN [loaded EXCEPT !.status = st, !.driver_id = 0, !.assigned_at = -1]
    ELSE [loaded EXCEPT !.status = st]

\* update_order_status: order.status = new_status; commit
s_commit(p) ==
    LET l == h[p]
        loaded == l.ord[1]
        new == StatusUpdate(loaded, l.newst)
    IN
    /\ l.pc = "s_commit"
    /\ CanWrite(l.oid, p, loaded, new)
    /\ orders' = [orders EXCEPT ![l.oid] = FlushOrder(@, loaded, new)]
    /\ h' = [h EXCEPT ![p] = [l EXCEPT !.pc = "s_post"]]
    /\ UNCHANGED <<now, stock, price, pstore, idem, pcache, ocache, scache, reqs, histVars>>

\* after the commit: invalidate the order keys, reload the order, notify
\* and broadcast (and for the driver route invalidate the driver keys)
s_post(p) ==
    LET l == h[p] IN
    /\ l.pc = "s_post"
    /\ ocache' = Redis(l, ocache, CacheDelete(ocache, l.oid))
    /\ scache' = Redis(l, scache, CacheDelete(scache, AvailableOrdersKey))
    /\ orders' = IF l.broken THEN RollbackAfterCommit(orders, l.oid, l.ord[1]) ELSE orders
    /\ h' = [h EXCEPT ![p] = AfterCacheCall(l, Finish(l, IF l.broken THEN "BadRequest" ELSE "ok"))]
    /\ UNCHANGED <<now, stock, price, pstore, idem, pcache, reqs, histVars>>

UpdateStatusSteps(p) == s_select(p) \/ s_commit(p) \/ s_post(p)
StatusSteps(p) == d_select(p) \/ UpdateStatusSteps(p)

\* ------------------------------------------------- order reads
\* GET /orders/{id}: get_order(order_id, current_user)
get_order(p, o, u) ==
    /\ Begin(p, [IdleLocal EXCEPT !.kind = "get_order", !.user = u, !.oid = o,
                                  !.pc = "g_cache"])
    /\ UNCHANGED <<now, dbVars, pcache, ocache, scache, histVars>>

StartGetOrder(p) == \E u \in Users, o \in OrderIds : get_order(p, o, u)

\* get_order on a cached order: anyone but the owner, a driver or an
\* admin gets NotFound
HiddenInCache(order, u) ==
    order.user_id # u /\ RoleOf(u) \notin {"driver", "admin"}

\* get_order on the row: a customer sees own orders, a driver the orders
\* assigned to the driver and those still pending or confirmed
HiddenInDb(order, u) ==
    \/ RoleOf(u) = "customer" /\ order.user_id # u
    \/ RoleOf(u) = "driver" /\ order.driver_id # u
                            /\ order.status \notin {"pending", "confirmed"}

\* get_order: redis GET order:{id}; a hit is the answer
g_cache(p) ==
    LET l == h[p] IN
    /\ l.pc = "g_cache"
    /\ h' = [h EXCEPT ![p] = AfterCacheCall(l,
            IF Hit(l, l.oid \in DOMAIN ocache)
            THEN IF HiddenInCache(ocache[l.oid], l.user) THEN Raise(l, "NotFound")
                 ELSE Finish([l EXCEPT !.response = Some(ocache[l.oid])], "ok")
            ELSE [l EXCEPT !.pc = "g_db"])]
    /\ UNCHANGED <<now, dbVars, pcache, ocache, scache, reqs, histVars>>

\* get_order, cache miss: SELECT the order with its relations
g_db(p) ==
    LET l == h[p] IN
    /\ l.pc = "g_db"
    /\ h' = [h EXCEPT ![p] =
            IF ~Exists(l.oid) \/ HiddenInDb(orders[l.oid], l.user)
            THEN Raise(l, "NotFound")
            ELSE [l EXCEPT !.ord = Some(orders[l.oid]), !.pc = "g_set"]]
    /\ UNCHANGED <<now, dbVars, pcache, ocache, scache, reqs, histVars>>

\* get_order, cache miss: look the review up, SETEX order:{id}, answer
g_set(p) ==
    LET l == h[p] IN
    /\ l.pc = "g_set"
    /\ ocache' = Redis(l, ocache, CacheSet(ocache, l.oid, l.ord[1]))
    /\ h' = [h EXCEPT ![p] = AfterCacheCall(l, Finish([l EXCEPT !.response = l.ord], "ok"))]
    /\ UNCHANGED <<now, dbVars, pcache, scache, reqs, histVars>>

GetOrderSteps(p) == g_cache(p) \/ g_db(p) \/ g_set(p)

\* ------------------------------------------------- store reads
\* a store id that has no row in the stores table
MissingStore == NumStores + 1

\* SELECT products WHERE store_id = store: the rows as the statement
\* returns them
ProductsOf(store) == {ProductRow(x) : x \in {y \in Products : pstore[y] = store}}

\* store_service._serialize_store: the store with its products embedded
\* (the store's own columns never change here and are left out)
_serialize_store(store) == [id |-> store, products |-> ProductsOf(store)]

\* GET /stores/{id}/products: get_store_products(store_id)
get_store_products(p, s) ==
    /\ Begin(p, [IdleLocal EXCEPT !.kind = "get_store_products", !.store = s,
                                  !.pc = "sp_cache"])
    /\ UNCHANGED <<now, dbVars, pcache, ocache, scache, histVars>>

StartGetStoreProducts(p) == \E s \in Stores : get_store_products(p, s)

\* get_store_products: redis GET store:products:{id}; a hit is the answer
sp_cache(p) ==
    LET l == h[p] IN
    /\ l.pc = "sp_cache"
    /\ h' = [h EXCEPT ![p] = AfterCacheCall(l,
            IF Hit(l, StoreProductsKey(l.store) \in DOMAIN scache)
            THEN Finish([l EXCEPT !.response = Some(scache[StoreProductsKey(l.store)])], "ok")
            ELSE [l EXCEPT !.pc = "sp_db"])]
    /\ UNCHANGED <<now, dbVars, pcache, ocache, scache, reqs, histVars>>

\* get_store_products, cache miss: SELECT the products of the store
sp_db(p) ==
    LET l == h[p] IN
    /\ l.pc = "sp_db"
    /\ h' = [h EXCEPT ![p] = [l EXCEPT !.ord = Some(ProductsOf(l.store)), !.pc = "sp_set"]]
    /\ UNCHANGED <<now, dbVars, pcache, ocache, scache, reqs, histVars>>

\* get_store_products, cache miss: SETEX store:products:{id}, answer
sp_set(p) ==
    LET l == h[p] IN
    /\ l.pc = "sp_set"
    /\ scache' = Redis(l, scache, CacheSet(scache, StoreProductsKey(l.store), l.ord[1]))
    /\ h' = [h EXCEPT ![p] = AfterCacheCall(l, Finish([l EXCEPT !.response = l.ord], "ok"))]
    /\ UNCHANGED <<now, dbVars, pcache, ocache, reqs, histVars>>

GetStoreProductsSteps(p) == sp_cache(p) \/ sp_db(p) \/ sp_set(p)

\* GET /stores/{id}: get_store(store_id)
get_store(p, s) ==
    /\ Begin(p, [IdleLocal EXCEPT !.kind = "get_store", !.store = s,
                                  !.pc = "gs_cache"])
    /\ UNCHANGED <<now, dbVars, pcache, ocache, scache, histVars>>

StartGetStore(p) == \E s \in Stores \cup {MissingStore} : get_store(p, s)

\* get_store: redis GET store:{id}; a hit is the answer
gs_cache(p) ==
    LET l == h[p] IN
    /\ l.pc = "gs_cache"
    /\ h' = [h EXCEPT ![p] = AfterCacheCall(l,
            IF Hit(l, StoreKey(l.store) \in DOMAIN scache)
            THEN Finish([l EXCEPT !.response = Some(scache[StoreKey(l.store)])], "ok")
            ELSE [l EXCEPT !.pc = "gs_db"])]
    /\ UNCHANGED <<now, dbVars, pcache, ocache, scache, reqs, histVars>>

\* get_store, cache miss: SELECT the store with selectinload(products)
gs_db(p) ==
    LET l == h[p] IN
    /\ l.pc = "gs_db"
    /\ h' = [h EXCEPT ![p] =
            IF l.store \notin Stores THEN Raise(l, "NotFound")
            ELSE [l EXCEPT !.ord = Some(_serialize_store(l.store)), !.pc = "gs_set"]]
    /\ UNCHANGED <<now, dbVars, pcache, ocache, scache, reqs, histVars>>

\* get_store, cache miss: SETEX store:{id}, answer
gs_set(p) ==
    LET l == h[p] IN
    /\ l.pc = "gs_set"
    /\ scache' = Redis(l, scache, CacheSet(scache, StoreKey(l.store), l.ord[1]))
    /\ h' = [h EXCEPT ![p] = AfterCacheCall(l, Finish([l EXCEPT !.response = l.ord], "ok"))]
    /\ UNCHANGED <<now, dbVars, pcache, ocache, reqs, histVars>>

GetStoreSteps(p) == gs_cache(p) \/ gs_db(p) \/ gs_set(p)

\* ------------------------------------------------- list reads
\* SELECT all products, as ids and as rows (in id order)
AllIds == [x \in 1..NumProducts |-> x]
AllRows == [x \in 1..NumProducts |-> ProductRow(x)]

\* GET /products: product_service.get_all_products()
get_all_products(p) ==
    /\ Begin(p, [IdleLocal EXCEPT !.kind = "get_all_products", !.pc = "ap_cache"])
    /\ UNCHANGED <<now, dbVars, pcache, ocache, scache, histVars>>

\* get_all_products: redis GET products:all; on a hit get_product is
\* called for each id of the list.  (No product is ever deleted here, so
\* get_product finds each of them.)
ap_cache(p) ==
    LET l == h[p] IN
    /\ l.pc = "ap_cache"
    /\ h' = [h EXCEPT ![p] = AfterCacheCall(l,
            IF Hit(l, AllProductsKey \in DOMAIN scache)
            THEN LET ids == scache[AllProductsKey] IN
                 [l EXCEPT !.ids = ids, !.idx = 1, !.pid = ids[1], !.ret = "all",
                           !.pc = "gp_cache"]
            ELSE [l EXCEPT !.pc = "ap_db"])]
    /\ UNCHANGED <<now, dbVars, pcache, ocache, scache, reqs, histVars>>

\* get_all_products, cache miss: SELECT every product
ap_db(p) ==
    LET l == h[p] IN
    /\ l.pc = "ap_db"
    /\ h' = [h EXCEPT ![p] = [l EXCEPT !.ids = AllIds, !.found = AllRows, !.pc = "ap_set"]]
    /\ UNCHANGED <<now, dbVars, pcache, ocache, scache, reqs, histVars>>

\* get_all_products, cache miss: SETEX products:all with the ids; when it
\* raises, the except clause also skips the caching of the products
ap_set(p) ==
    LET l == h[p] IN
    /\ l.pc = "ap_set"
    /\ scache' = Redis(l, scache, CacheSet(scache, AllProductsKey, l.ids))
    /\ h' = [h EXCEPT ![p] = AfterCacheCall(l,
            IF l.outage THEN Finish([l EXCEPT !.response = Some(l.found)], "ok")
            ELSE [l EXCEPT !.idx = 1, !.pc = "ap_each"])]
    /\ UNCHANGED <<now, dbVars, pcache, ocache, reqs, histVars>>

\* get_all_products, cache miss: _cache_product of the next row; after the
\* last one the rows are the answer
ap_each(p) ==
    LET l == h[p] IN
    /\ l.pc = "ap_each"
    /\ pcache' = Redis(l, pcache, [pcache EXCEPT ![l.ids[l.idx]] = Some(l.found[l.idx])])
    /\ h' = [h EXCEPT ![p] = AfterCacheCall(l,
            IF l.idx < Len(l.ids) THEN [l EXCEPT !.idx = l.idx + 1]
            ELSE Finish([l EXCEPT !.response = Some(l.found)], "ok"))]
    /\ UNCHANGED <<now, dbVars, ocache, scache, reqs, histVars>>

GetAllProductsSteps(p) ==
    ap_cache(p) \/ GetProductSteps(p) \/ ap_db(p) \/ ap_set(p) \/ ap_each(p)

\* driver_service.get_available_orders: a driver can accept the confirmed
\* orders that have no driver
Available(o) == Exists(o) /\ orders[o].status = "confirmed" /\ orders[o].driver_id = 0

\* SELECT the available orders, oldest first: their ids
RECURSIVE AvailableUpTo(_)
AvailableUpTo(n) ==
    IF n = 0 THEN <<>>
    ELSE IF Available(n) THEN Append(AvailableUpTo(n - 1), n) ELSE AvailableUpTo(n - 1)

RowsOf(ids) == [i \in DOMAIN ids |-> orders[ids[i]]]

\* GET /drivers/available-orders: get_available_orders()
get_available_orders(p) ==
    /\ Begin(p, [IdleLocal EXCEPT !.kind = "get_available_orders", !.pc = "av_cache"])
    /\ UNCHANGED <<now, dbVars, pcache, ocache, scache, histVars>>

\* get_available_orders: redis GET drivers:available_orders; a cached
\* empty list is the answer at once
av_cache(p) ==
    LET l == h[p] IN
    /\ l.pc = "av_cache"
    /\ h' = [h EXCEPT ![p] = AfterCacheCall(l,
            IF Hit(l, AvailableOrdersKey \in DOMAIN scache)
            THEN LET ids == scache[AvailableOrdersKey] IN
                 IF ids = <<>> THEN Finish([l EXCEPT !.response = Some(<<>>)], "ok")
                 ELSE [l EXCEPT !.ids = ids, !.idx = 1, !.pc = "av_check"]
            ELSE [l EXCEPT !.pc = "av_db"])]
    /\ UNCHANGED <<now, dbVars, pcache, ocache, scache, reqs, histVars>>

\* the test of a row that was loaded for an id of the cached list
StillAvailableMut(o) == Exists(o)
StillAvailable(o) == Available(o)

\* get_available_orders, cache hit: SELECT the next order of the list; an
\* order that is no longer available makes the list stale: DELETE the key
\* and fall back to the database.  After the last id the orders are the
\* answer
av_check(p) ==
    LET l == h[p]
        o == l.ids[l.idx]
    IN
    /\ l.pc = "av_check"
    /\ scache' = IF StillAvailable(o) THEN scache
                 ELSE Redis(l, scache, CacheDelete(scache, AvailableOrdersKey))
    /\ h' = [h EXCEPT ![p] =
            IF ~StillAvailable(o) THEN [l EXCEPT !.found = <<>>, !.pc = "av_db"]
            ELSE LET l1 == [l EXCEPT !.found = Append(l.found, orders[o])] IN
                 IF l.idx < Len(l.ids) THEN [l1 EXCEPT !.idx = l.idx + 1]
                 ELSE Finish([l1 EXCEPT !.response = Some(l1.found)], "ok")]
    /\ UNCHANGED <<now, dbVars, pcache, ocache, reqs, histVars>>

\* get_available_orders, cache miss: SELECT the available orders
av_db(p) ==
    LET l == h[p]
        ids == AvailableUpTo(Len(orders))
    IN
    /\ l.pc = "av_db"
    /\ h' = [h EXCEPT ![p] = [l EXCEPT !.ids = ids, !.found = RowsOf(ids), !.pc = "av_set"]]
    /\ UNCHANGED <<now, dbVars, pcache, ocache, scache, reqs, histVars>>

\* get_available_orders, cache miss: SETEX the ids, answer with the orders
av_set(p) ==
    LET l == h[p] IN
    /\ l.pc = "av_set"
    /\ scache' = Redis(l, scache, CacheSet(scache, AvailableOrdersKey, l.ids))
    /\ h' = [h EXCEPT ![p] = AfterCacheCall(l, Finish([l EXCEPT !.response = Some(l.found)], "ok"))]
    /\ UNCHANGED <<now, dbVars, pcache, ocache, reqs, histVars>>

AvailableOrdersSteps(p) == av_cache(p) \/ av_check(p) \/ av_db(p) \/ av_set(p)

\* ------------------------------------------------- admin router
\* PATCH /admin/orders/{id}/cancel: administrators only
cancel_order(p, o, u) ==
    /\ Begin(p, LET l == [IdleLocal EXCEPT !.kind = "admin_cancel", !.user = u,
                                           !.oid = o, !.newst = "cancelled"] IN
                IF RoleOf(u) # "admin" THEN Finish(l, "Forbidden")
                ELSE [l EXCEPT !.pc = "ac_select"])
    /\ UNCHANGED <<now, dbVars, pcache, ocache, scache, histVars>>

StartAdminCancel(p) == \E u \in Users, o \in OrderIds : cancel_order(p, o, u)

\* cancel_order: load the order; delivered and cancelled orders are refused
ac_select(p) ==
    LET l == h[p] IN
    /\ l.pc = "ac_select"
    /\ h' = [h EXCEPT ![p] =
            IF ~Exists(l.oid) THEN Finish(l, "NotFound")
            ELSE IF orders[l.oid].status \in {"delivered", "cancelled"}
                 THEN Finish(l, "BadRequest")
            ELSE [l EXCEPT !.ord = Some(orders[l.oid]), !.pc = "ac_commit"]]
    /\ UNCHANGED <<now, dbVars, pcache, ocache, scache, reqs, histVars>>

\* cancel_order: the values set on the loaded order
AdminCancelUpdate(loaded) ==
    [loaded EXCEPT !.status = "cancelled",
                   !.driver_id = IF loaded.driver_id # 0 THEN 0 ELSE @]

\* cancel_order: status = cancelled, driver removed; commit
ac_commit(p) ==
    LET l == h[p]
        loaded == l.ord[1]
        new == AdminCancelUpdate(loaded)
    IN
    /\ l.pc = "ac_commit"
    /\ CanWrite(l.oid, p, loaded, new)
    /\ orders' = [orders EXCEPT ![l.oid] = FlushOrder(@, loaded, new)]
    /\ h' = [h EXCEPT ![p] = Finish(l, "ok")]
    /\ UNCHANGED <<now, stock, price, pstore, idem, pcache, ocache, scache, reqs, histVars>>

\* PATCH /admin/orders/{id}/confirm: administrators only
StartAdminConfirm(p) ==
    \E u \in Users, o \in OrderIds :
        /\ Begin(p, LET l == [IdleLocal EXCEPT !.kind = "admin_confirm", !.user = u,
                                               !.oid = o, !.newst = "confirmed"] IN
                    IF RoleOf(u) # "admin" THEN Finish(l, "Forbidden")
                    ELSE [l EXCEPT !.pc = "af_select"])
        /\ UNCHANGED <<now, dbVars, pcache, ocache, scache, histVars>>

\* confirm_order: load the order; only a pending order is confirmed
af_select(p) ==
    LET l == h[p] IN
    /\ l.pc = "af_select"
    /\ h' = [h EXCEPT ![p] =
            IF ~Exists(l.oid) THEN Finish(l, "NotFound")
            ELSE IF orders[l.oid].status # "pending" THEN Finish(l, "BadRequest")
            ELSE [l EXCEPT !.ord = Some(orders[l.oid]), !.pc = "af_commit"]]
    /\ UNCHANGED <<now, dbVars, pcache, ocache, scache, reqs, histVars>>

\* confirm_order: status = confirmed; commit
af_commit(p) ==
    LET l == h[p]
        loaded == l.ord[1]
        new == [loaded EXCEPT !.status = "confirmed"]
    IN
    /\ l.pc = "af_commit"
    /\ CanWrite(l.oid, p, loaded, new)
    /\ orders' = [orders EXCEPT ![l.oid] = FlushOrder(@, loaded, new)]
    /\ h' = [h EXCEPT ![p] = Finish(l, "ok")]
    /\ UNCHANGED <<now, stock, price, pstore, idem, pcache, ocache, scache, reqs, histVars>>

AdminSteps(p) == ac_select(p) \/ ac_commit(p) \/ af_select(p) \/ af_commit(p)

\* ------------------------------------------------- merchant move-status
\* PUT /orders/{id}/move-status: the scope orders:update_status, then the
\* store_owner role
StartMoveStatus(p) ==
    \E u \in Callers, o \in OrderIds, st \in {"confirmed", "delivered"} :
        /\ Begin(p, LET l == [IdleLocal EXCEPT !.kind = "move_status", !.user = u,
                                               !.oid = o, !.newst = st] IN
                    IF ~require_scope(u, "orders:update_status")
                       \/ RoleOf(u) # "store_owner"
                    THEN Finish(l, "Forbidden")
                    ELSE [l EXCEPT !.pc = "m_select"])
        /\ UNCHANGED <<now, dbVars, pcache, ocache, scache, histVars>>

\* advance_order_status: the tests on the order, its store and the
\* requested status, in the order of the code
MoveError(o, user, st) ==
    IF StoreOwner(o.store_id) # user THEN "Forbidden"
    ELSE IF st # "confirmed" THEN "BadRequest"
    ELSE IF o.status # "pending" THEN "BadRequest"
    ELSE None

\* advance_order_status: load the order and its store (the stores do not
\* change, so the two reads are one step), test them
m_select(p) ==
    LET l == h[p] IN
    /\ l.pc = "m_select"
    /\ h' = [h EXCEPT ![p] =
            IF ~Exists(l.oid) THEN Finish(l, "NotFound")
            ELSE IF MoveError(orders[l.oid], l.user, l.newst) # None
                 THEN Finish(l, MoveError(orders[l.oid], l.user, l.newst))
            ELSE [l EXCEPT !.ord = Some(orders[l.oid]), !.pc = "m_commit"]]
    /\ UNCHANGED <<now, dbVars, pcache, ocache, scache, reqs, histVars>>

\* advance_order_status: status = confirmed; commit
m_commit(p) ==
    LET l == h[p]
        loaded == l.ord[1]
        new == [loaded EXCEPT !.status = "confirmed"]
    IN
    /\ l.pc = "m_commit"
    /\ CanWrite(l.oid, p, loaded, new)
    /\ orders' = [orders EXCEPT ![l.oid] = FlushOrder(@, loaded, new)]
    /\ h' = [h EXCEPT ![p] = [l EXCEPT !.pc = "m_post"]]
    /\ UNCHANGED <<now, stock, price, pstore, idem, pcache, ocache, scache, reqs, histVars>>

\* advance_order_status: refresh, notify the customer, broadcast
m_post(p) ==
    LET l == h[p] IN
    /\ l.pc = "m_post"
    /\ h' = [h EXCEPT ![p] = Finish(l, "ok")]
    /\ UNCHANGED <<now, dbVars, pcache, ocache, scache, reqs, histVars>>

MoveSteps(p) == m_select(p) \/ m_commit(p) \/ m_post(p)

\* ------------------------------------------------- Reclaimer
\* the periodic reclaim_expired_assignments task: the scheduler starts a
\* sweep every minute, for ever; it is not one of the requests
StartReclaim(p) ==
    /\ Free(p)
    /\ h' = [h EXCEPT ![p] = [IdleLocal EXCEPT !.kind = "reclaim", !.pc = "rc_select"]]
    /\ UNCHANGED <<now, dbVars, pcache, ocache, scache, reqs, histVars>>

\* the sweep's WHERE clause: status assigned and assigned_at <= now - 10 min
\* (a NULL assigned_at never satisfies the comparison)
SweepSelects(o, t) ==
    /\ o.status = "assigned"
    /\ o.assigned_at # -1
    /\ o.assigned_at <= t - ExpiryMinutes

\* reclaim_expired_assignments: SELECT the expired assignments (no lock);
\* with none, nothing is committed
rc_select(p) ==
    LET l == h[p]
        ids == {o \in DOMAIN orders : SweepSelects(orders[o], now)}
    IN
    /\ l.pc = "rc_select"
    /\ h' = [h EXCEPT ![p] =
            IF ids = {} THEN Finish(l, "ok")
            ELSE [l EXCEPT !.rows = [o \in ids |-> orders[o]], !.pc = "rc_commit"]]
    /\ UNCHANGED <<now, dbVars, pcache, ocache, scache, reqs, histVars>>

\* reclaim_expired_assignments: the values set on each loaded order
ReclaimUpdate(loaded) ==
    [loaded EXCEPT !.driver_id = 0, !.status = "confirmed", !.assigned_at = -1]

\* reclaim_expired_assignments: revert every loaded order; commit
rc_commit(p) ==
    LET l == h[p] IN
    /\ l.pc = "rc_commit"
    /\ \A o \in DOMAIN l.rows : ~LockedByOther(o, p)
    /\ orders' = [o \in DOMAIN orders |->
                    IF o \in DOMAIN l.rows
                    THEN FlushOrder(orders[o], l.rows[o], ReclaimUpdate(l.rows[o]))
                    ELSE orders[o]]
    /\ h' = [h EXCEPT ![p] = Finish(l, "ok")]
    /\ UNCHANGED <<now, stock, price, pstore, idem, pcache, ocache, scache, reqs, histVars>>

ReclaimSteps(p) == rc_select(p) \/ rc_commit(p)

\* ------------------------------------------------- time
\* an order key lives ORDER_CACHE_TTL, less than a step of the clock: the
\* step drops every order key, and the list keys, which live as long
\* (products:all) or 30 seconds (drivers:available_orders); a product key
\* and a store key live longer than a step
Tick ==
    /\ now + TickMinutes <= MaxTime
    /\ now' = now + TickMinutes
    /\ ocache' = IF TickMinutes > OrderCacheMinutes THEN NoKeys ELSE ocache
    /\ scache' = IF TickMinutes > OrderCacheMinutes
                 THEN CacheDeleteAll(scache, {AllProductsKey, AvailableOrdersKey})
                 ELSE scache
    /\ UNCHANGED <<dbVars, pcache, h, reqs, histVars>>

\* ------------------------------------------------- specification: ledger
\* no order yet, an empty cache, idle handlers
InitCatalog(initial, stores) ==
    /\ stock = initial
    /\ pstore = stores
    /\ now = 0
    /\ price = [p \in Products |-> InitPrice(p)]
    /\ orders = <<>>
    /\ idem = [k \in Keys |-> Null]
    /\ pcache = [p \in Products |-> Null]
    /\ ocache = NoKeys
    /\ scache = NoKeys
    /\ h = [p \in Procs |-> IdleLocal]
    /\ reqs = 0
    /\ stock0 = stock
    /\ resSum = [p \in Products |-> 0]
    /\ relSum = [p \in Products |-> 0]

InitWith(initial) == InitCatalog(initial, TwoStores)

\* the ledger's product with any stock
InitStock ==
    \E initial \in [Products -> 0..MaxStock] :
        /\ \A p \in Products \ LedgerProducts : initial[p] = MaxStock
        /\ InitWith(initial)

NextStock ==
    \E p \in Procs : StartReserve(p) \/ StartRelease(p) \/ ReserveSteps(p) \/ ReleaseSteps(p)

\* concurrent reserve_stock and release_stock calls of separate handlers
SpecStock == InitStock /\ [][NextStock]_vars

AllDone == \A p \in Procs : Idle(p)

\* C3: the stock of every product is never negative, whatever the
\* interleaving of reserve and release calls
C3_StockNonNegative == \A p \in Products : stock[p] >= 0

\* C3 witness: two reserves of one product ran concurrently and both succeeded
C3_Witness ==
    /\ AllDone
    /\ \E p \in Procs, q \in Procs :
         /\ p # q
         /\ h[p].kind = "reserve" /\ h[q].kind = "reserve"
         /\ h[p].pid = h[q].pid
         /\ h[p].result = "ok" /\ h[q].result = "ok"
         /\ stock[h[p].pid] = 0

\* C4: no stock update is lost: once every call has returned, the stock is
\* the initial stock minus the successful reserves plus the releases
C4_NoLostUpdate ==
    AllDone => \A p \in Products : stock[p] = stock0[p] - resSum[p] + relSum[p]


\* ------------------------------------------------- specification: composer
NextCreate == \E p \in Procs : StartCreate(p) \/ CreateSteps(p)

\* concurrent order submissions
\* every product fully stocked
InitCreate == InitWith([p \in Products |-> MaxStock])

SpecCreate == InitCreate /\ [][NextCreate]_vars

NoReservation == [p \in Products |-> 0]

\* the committed orders of handler p's cart that contain product pid
OrdersWith(p, pid) ==
    {o \in h[p].created : \E i \in DOMAIN orders[o].items :
                              orders[o].items[i].product_id = pid}

\* C5: a create whose cart has a line that names a missing product, or
\* asks for more than the product's stock when the line is validated,
\* fails without creating an order and without changing any stock
C5_AllOrNothingAtValidation ==
    \A p \in Procs :
        (h[p].kind = "create" /\ h[p].short) =>
            /\ h[p].reserved = NoReservation
            /\ h[p].created = {}
            /\ h[p].result # "ok"

\* C6: after a create that failed, none of its reservations remains and
\* none of its orders exists
C6_NothingLeftAfterFailure ==
    \A p \in Procs :
        (h[p].kind = "create" /\ h[p].pc = "done" /\ h[p].result # "ok") =>
            /\ h[p].reserved = NoReservation
            /\ h[p].created = {}

\* C7: the committed state never shows a reservation of a cart without the
\* order that contains it
C7_ReservationAtomicWithOrder ==
    \A p \in Procs :
        h[p].kind = "create" =>
            \A pid \in Products :
                h[p].reserved[pid] > 0 => OrdersWith(p, pid) # {}

\* ------------------------------------------------- specification: accept
\* the order create_order commits for a one-store cart of a customer
RECURSIVE CartTotal(_)
CartTotal(c) ==
    IF c = <<>> THEN 0
    ELSE InitPrice(c[Len(c)].pid) * c[Len(c)].qty + CartTotal(SubSeq(c, 1, Len(c) - 1))

PlacedOrder(c, st) ==
    [user_id |-> Customer, store_id |-> 1, driver_id |-> 0,
     status |-> st, assigned_at |-> -1,
     total_price |-> CartTotal(c),
     items |-> [i \in DOMAIN c |-> [product_id |-> c[i].pid, quantity |-> c[i].qty,
                                    price_at_purchase |-> InitPrice(c[i].pid)]]]

\* the quantity cart c takes of product p
Taken(c, p) == IF \E i \in DOMAIN c : c[i].pid = p
               THEN c[CHOOSE i \in DOMAIN c : c[i].pid = p].qty ELSE 0

\* the state after one create_order of cart c, all products in one store
\* and fully stocked before it: the stock reserved, the products of the
\* cart cached by reserve_stock, the order committed; st is pending, or
\* confirmed once the store has confirmed it
InitPlaced(c, st) ==
    /\ stock0 = [p \in Products |-> MaxStock]
    /\ stock = [p \in Products |-> MaxStock - Taken(c, p)]
    /\ pstore = [p \in Products |-> 1]
    /\ price = [p \in Products |-> InitPrice(p)]
    /\ now = 0
    /\ orders = <<PlacedOrder(c, st)>>
    /\ idem = [k \in Keys |-> Null]
    /\ ocache = CacheSet(NoKeys, 1, PlacedOrder(c, st))
    /\ scache = NoKeys
    /\ pcache = [p \in Products |->
                    IF Taken(c, p) > 0
                    THEN Some([id |-> p, stock |-> MaxStock - Taken(c, p),
                               price |-> InitPrice(p), store_id |-> 1])
                    ELSE Null]
    /\ h = [p \in Procs |-> IdleLocal]
    /\ reqs = 0
    /\ resSum = [p \in Products |-> Taken(c, p)]
    /\ relSum = [p \in Products |-> 0]

\* carts of products that exist, within their stock
PlacedCarts == {c \in Carts : \A i \in DOMAIN c : c[i].pid \in Products /\ c[i].qty <= MaxStock}

InitAccept ==
    \E c \in PlacedCarts, st \in {"pending", "confirmed"} :
        Len(c) = 1 /\ c[1].pid = 1 /\ InitPlaced(c, st)

NextAccept == \E p \in Procs : StartAccept(p) \/ AcceptSteps(p)

\* accept requests racing on one order that waits for a driver
SpecAccept == InitAccept /\ [][NextAccept]_vars

\* the accept calls of drivers on order o: in flight, and returned
AcceptCalls(o) == {p \in Procs : h[p].kind = "accept" /\ h[p].oid = o
                                 /\ h[p].user \in Drivers}
Committed(p) == h[p].pc = "a_post" \/ (h[p].pc = "done" /\ h[p].result = "ok")
Failed(p) == h[p].pc = "done" /\ h[p].result = "BadRequest"

\* C1: of the accept calls of distinct drivers on one order that is pending
\* or confirmed with no driver, never more than one has committed; once two
\* or more of them have returned, exactly one has succeeded, every other
\* has failed with an error, and the order is assigned to the winner with
\* assigned_at set
C1_ExactlyOneAccept ==
    \A o \in DOMAIN orders :
        LET calls == AcceptCalls(o) IN
        (\A p \in calls, q \in calls : p # q => h[p].user # h[q].user) =>
            /\ Cardinality({p \in calls : Committed(p)}) <= 1
            /\ (Cardinality(calls) >= 2 /\ \A p \in calls : h[p].pc = "done") =>
                   \E w \in calls :
                       /\ h[w].result = "ok"
                       /\ \A p \in calls \ {w} : Failed(p)
                       /\ orders[o].status = "assigned"
                       /\ orders[o].driver_id = h[w].user
                       /\ orders[o].assigned_at # -1

\* C1 witness: two drivers' accepts of the order were in flight together;
\* one has committed and the other has been refused
C1_Witness ==
    \E p \in Procs, q \in Procs :
        /\ h[p].kind = "accept" /\ h[q].kind = "accept"
        /\ h[p].oid = 1 /\ h[q].oid = 1
        /\ h[p].user \in Drivers /\ h[q].user \in Drivers /\ h[p].user # h[q].user
        /\ h[p].pc = "a_post"
        /\ h[q].pc = "a_rollback" /\ h[q].result = "BadRequest"
        /\ orders[1].status = "assigned" /\ orders[1].driver_id = h[p].user

\* ------------------------------------------------- specification: dispatch
NextDispatch ==
    \/ \E p \in Procs : StartAccept(p) \/ AcceptSteps(p)
    \/ Tick

\* accept requests and the passing of time
SpecDispatch == InitAccept /\ [][NextDispatch]_vars

\* an assignment of order row o to driver d that has not expired at time
\* t (models.Order.assignment_expired: older than the window is expired)
HeldBy(o, d, t) ==
    /\ o.status = "assigned" /\ o.driver_id = d /\ d # 0
    /\ o.assigned_at # -1 /\ t - o.assigned_at <= ExpiryMinutes

\* C2: while an order is assigned to driver D and the assignment is not
\* older than the expiry window, an accept by another driver that reads
\* the order is refused with an error, and no accept by another driver
\* changes the order's driver, status or assigned_at
C2_OneHolder ==
    [][\A p \in Procs :
         (/\ h[p].kind = "accept" /\ h[p].pc \in {"a_select", "a_commit"}
          /\ h'[p].pc # h[p].pc
          /\ Exists(h[p].oid)
          /\ \E d \in Drivers \ {h[p].user} : HeldBy(orders[h[p].oid], d, now))
         => /\ orders' = orders
            /\ h[p].pc = "a_select"
            /\ h'[p].pc = "a_rollback" /\ h'[p].result = "BadRequest"]_vars

\* C2 witness: some time after driver D took the order, and within the
\* expiry window, another driver's accept has been refused
C2_Witness ==
    \E p \in Procs :
        /\ h[p].kind = "accept" /\ h[p].pc = "a_rollback" /\ h[p].result = "BadRequest"
        /\ \E d \in Drivers \ {h[p].user} : HeldBy(orders[h[p].oid], d, now)
        /\ now > orders[h[p].oid].assigned_at

\* ------------------------------------------------- specification: lifecycle
\* a customer's order, just created
\* the cart of the order: one unit of each of the first products
LifecycleCarts ==
    {c \in PlacedCarts : Len(c) = MaxLines /\ \A i \in DOMAIN c : c[i].pid = i /\ c[i].qty = 1}

InitLifecycle == \E c \in LifecycleCarts : InitPlaced(c, "pending")

NextLifecycle ==
    \/ \E p \in Procs : StartStatus(p) \/ StartDeliveryStatus(p) \/ StatusSteps(p)
    \/ \E p \in Procs : ReleaseSteps(p)
    \/ \E p \in Procs : StartAccept(p) \/ AcceptSteps(p)
    \/ \E p \in Procs : StartAdminCancel(p) \/ StartAdminConfirm(p) \/ AdminSteps(p)
    \/ \E p \in Procs : StartMoveStatus(p) \/ MoveSteps(p)

\* every request on the status of a created order (the periodic sweep is
\* part of SpecSweep)
SpecLifecycle == InitLifecycle /\ [][NextLifecycle]_vars

\* C8: when the one request made since the order was created is a
\* cancellation, through whichever path, then at the step at which it
\* returns with success every product's stock is back at its level from
\* before the order
C8_CancelRestoresStock ==
    [][\A p \in Procs :
         (/\ reqs = 1
          /\ h[p].kind \in {"status", "dstatus", "admin_cancel"}
          /\ h[p].newst = "cancelled"
          /\ h[p].pc # "done" /\ h'[p].pc = "done" /\ h'[p].result = "ok")
         => \A prod \in Products : stock'[prod] = stock0[prod]]_vars

\* the transition table: the edges each role may take on order row o
TransitionTable(role, user, o, to) ==
    LET from == o.status
        forward == \/ from = "pending" /\ to = "confirmed"
                   \/ from = "confirmed" /\ to = "assigned"
                   \/ from = "assigned" /\ to = "picked_up"
                   \/ from = "picked_up" /\ to = "in_transit"
                   \/ from = "in_transit" /\ to = "delivered"
    IN  CASE role = "admin" ->
                 \/ forward
                 \/ to = "cancelled" /\ from \notin {"delivered", "cancelled"}
          [] role = "driver" ->
                 /\ o.driver_id = user
                 /\ forward /\ from \in {"assigned", "picked_up", "in_transit"}
          [] role = "store_owner" -> from = "pending" /\ to = "confirmed"
          [] OTHER -> FALSE

\* C9: a status request for an edge that is not in the transition table
\* for the caller's role is over, with an error, as soon as it has read
\* the order: it goes on neither to release stock nor to write the order
C9_InvalidTransitionRejected ==
    [][\A p \in Procs :
         (/\ h[p].kind \in {"status", "dstatus"} /\ h[p].pc = "s_select"
          /\ h'[p].pc # "s_select"
          /\ Exists(h[p].oid)
          /\ ~TransitionTable(RoleOf(h[p].user), h[p].user, orders[h[p].oid], h[p].newst))
         => /\ h'[p].pc = "done" /\ h'[p].result # "ok"
            /\ orders' = orders /\ stock' = stock]_vars

\* C10: no step changes the status of an order that is delivered or
\* cancelled
C10_TerminalStatus ==
    [][\A o \in DOMAIN orders :
         orders[o].status \in {"delivered", "cancelled"}
         => orders'[o].status = orders[o].status]_vars

\* the edges of a driver: the order is the driver's, and the step is the
\* next one of the delivery
DriverEdge(o, driver, to) ==
    /\ o.driver_id = driver
    /\ \/ o.status = "assigned" /\ to = "picked_up"
       \/ o.status = "picked_up" /\ to = "in_transit"
       \/ o.status = "in_transit" /\ to = "delivered"

\* C11: a step of a driver's status request, made through the delivery-status
\* operation or through the generic status operation, changes an order or a
\* product's stock only when the order is assigned to that driver and the
\* requested status is the next step of the delivery
C11_DriverEdgesOnly ==
    [][\A p \in Procs :
         (/\ h[p].kind \in {"status", "dstatus"}
          /\ RoleOf(h[p].user) = "driver"
          /\ h'[p] # h[p]
          /\ (orders' # orders \/ stock' # stock))
         => DriverEdge(orders[h[p].oid], h[p].user, h[p].newst)]_vars

\* the edge of a merchant: a pending order of the merchant's own store is
\* confirmed
MerchantEdge(o, user, to) ==
    /\ StoreOwner(o.store_id) = user
    /\ o.status = "pending" /\ to = "confirmed"

\* C12: a step of a status request made by a store owner, through whichever
\* operation, changes an order or a product's stock only when the order is
\* pending, belongs to a store of that owner, and is being confirmed
C12_MerchantOnlyConfirms ==
    [][\A p \in Procs :
         (/\ h[p].kind \in {"status", "dstatus", "move_status"}
          /\ h[p].user \in Callers /\ RoleOf(h[p].user) = "store_owner"
          /\ h'[p] # h[p]
          /\ (orders' # orders \/ stock' # stock))
         => MerchantEdge(orders[h[p].oid], h[p].user, h[p].newst)]_vars

\* C13: in every state an order's assigned_at is set exactly when its
\* status is assigned
C13_AssignedAtIffAssigned ==
    \A o \in DOMAIN orders :
        (orders[o].assigned_at # -1) <=> (orders[o].status = "assigned")

\* an assignment of order row o to another driver than d that is older
\* than the expiry window at time t
StaleFor(o, d, t) ==
    /\ o.status = "assigned" /\ o.driver_id \notin {0, d}
    /\ o.assigned_at # -1 /\ t - o.assigned_at > ExpiryMinutes

\* C14: an accept by driver D2 that reads an order assigned to another
\* driver for longer than the expiry window goes on to take the order,
\* with assigned_at = now
C14_StaleAssignmentStolen ==
    [][\A p \in Procs :
         (/\ h[p].kind = "accept" /\ h[p].pc = "a_select" /\ h'[p].pc # "a_select"
          /\ Exists(h[p].oid)
          /\ StaleFor(orders[h[p].oid], h[p].user, now))
         => h'[p].pc = "a_commit" /\ h'[p].ts = now]_vars

\* ------------------------------------------------- specification: sweep
NextSweep ==
    \/ \E p \in Procs : StartStatus(p) \/ UpdateStatusSteps(p) \/ ReleaseSteps(p)
    \/ \E p \in Procs : StartAccept(p) \/ AcceptSteps(p)
    \/ \E p \in Procs : StartReclaim(p) \/ ReclaimSteps(p)
    \/ Tick

\* a request or a sweep that has started runs to its end, the scheduler
\* keeps starting sweeps, and time passes; that a client sends a request
\* is not assumed
Fairness ==
    /\ \A p \in Procs : WF_vars(UpdateStatusSteps(p) \/ ReleaseSteps(p) \/ AcceptSteps(p)
                                \/ ReclaimSteps(p))
    /\ WF_vars(\E p \in Procs : StartReclaim(p))
    /\ WF_vars(Tick)

\* an order of one unit of the first product, confirmed by the store
InitSweep ==
    \E c \in PlacedCarts :
        Len(c) = 1 /\ c[1].pid = 1 /\ c[1].qty = 1 /\ InitPlaced(c, "confirmed")

\* status requests, accepts and the periodic sweep, fairly scheduled
SpecSweep == InitSweep /\ [][NextSweep]_vars /\ Fairness

\* models.Order.assignment_expired, at time t
assignment_expired(o, t) ==
    IF o.status # "assigned" THEN FALSE
    ELSE IF o.assigned_at = -1 THEN TRUE
    ELSE t - o.assigned_at > ExpiryMinutes

\* C15: an order whose assignment has expired, however the order became
\* assigned, eventually leaves the assigned status: the sweep reverts it
\* (unless a request moves it on first)
C15_ExpiredEventuallyReverted ==
    assignment_expired(orders[1], now) ~> (orders[1].status # "assigned")

\* C16: no step of a reclaim sweep changes an order that a driver has
\* picked up: the committed pickup is never set back to confirmed and its
\* driver is never cleared by the sweep
C16_SweepKeepsPickup ==
    [][\A p \in Procs, o \in DOMAIN orders :
         (/\ h[p].kind = "reclaim" /\ h'[p] # h[p]
          /\ orders[o].status = "picked_up" /\ orders[o].driver_id # 0)
         => orders'[o] = orders[o]]_vars
\* ------------------------------------------------- specification: prices
\* a customer buys one unit of each of the first products of the catalogue
\* while an admin changes prices; the products are all of one store, or
\* of two
Baskets ==
    {[i \in 1..n |-> [pid |-> i, qty |-> 1]] : n \in 1..MaxLines} \cap Carts

\* one customer and one admin: each sends the next request after the
\* answer to the last one
Busy(kind) == \E q \in Procs : h[q].kind = kind /\ ~Idle(q)

StartBasket(p) ==
    /\ ~Busy("create")
    /\ \E c \in Baskets : create_order(p, c, Customer)

StartReprice(p) == ~Busy("update_product") /\ StartUpdateProduct(p)

NextPrice ==
    \E p \in Procs :
        \/ StartBasket(p) \/ CreateSteps(p)
        \/ StartReprice(p) \/ UpdateProductSteps(p)

InitPrices ==
    \E stores \in {TwoStores, [p \in Products |-> 1]} :
        InitCatalog([p \in Products |-> MaxStock], stores)

SpecPrice == InitPrices /\ [][NextPrice]_vars

\* models.Order.computed_total_price
RECURSIVE SumItems(_)
SumItems(items) ==
    IF items = <<>> THEN 0
    ELSE items[Len(items)].price_at_purchase * items[Len(items)].quantity
         + SumItems(SubSeq(items, 1, Len(items) - 1))

computed_total_price(o) == SumItems(o.items)

MerchantsOf(c) == {pstore[c[i].pid] : i \in DOMAIN c}
LinesOf(c, s) == {c[i] : i \in {j \in DOMAIN c : pstore[c[j].pid] = s}}
ItemLines(o) == {[pid |-> o.items[i].product_id, qty |-> o.items[i].quantity] : i \in DOMAIN o.items}

ReleaseAfterReserve(q, r) ==
    /\ h[q].kind = "release" /\ h[q].pc = "l_update"
    /\ h[r].kind = "reserve" /\ h[r].pc = "done" /\ h[r].result = "ok"
    /\ h[r].pid = h[q].pid /\ h[r].qty = h[q].qty
    /\ resSum[h[q].pid] = h[q].qty
    /\ relSum[h[q].pid] = 0
    /\ \A x \in Procs \ {q} : Idle(x)

\* C19: a successful reserve(p, q) followed by release(p, q), nothing else
\* touching p in between, puts the stock of p back to its value before
\* the reserve
C19_ReserveReleaseRestores ==
    [][\A q \in Procs, r \in Procs :
         (ReleaseAfterReserve(q, r) /\ h'[q].pc = "l_select")
         => stock'[h[q].pid] = stock0[h[q].pid]]_vars

\* the release of the largest quantity has just run after its reserve
C19_Witness ==
    \E q \in Procs, r \in Procs :
        /\ h[q].kind = "release" /\ h[q].pc = "l_select" /\ h[q].qty = MaxQty
        /\ h[r].kind = "reserve" /\ h[r].pc = "done" /\ h[r].result = "ok"
        /\ h[r].pid = h[q].pid /\ h[r].qty = h[q].qty
        /\ resSum[h[q].pid] = MaxQty /\ relSum[h[q].pid] = MaxQty
        /\ stock[h[q].pid] = stock0[h[q].pid]

\* ------------------------------------------------- ledger: refusal
\* handler p runs the SELECT of reserve_stock(pid, qty) while the product
\* has less than qty in stock
ReserveShort(p) ==
    /\ h[p].pc = "r_select" /\ h'[p] # h[p]
    /\ h[p].pid \in Products
    /\ stock[h[p].pid] < h[p].qty

\* C20: reserve(p, q) on a product whose stock is below q fails with
\* InsufficientStock carrying requested = q and available = the current
\* stock, and the stock stays as it was
C20_ShortReserveRefused ==
    [][\A p \in Procs :
         ReserveShort(p)
         => /\ h'[p].pc = "done"
            /\ h'[p].result = "InsufficientStock"
            /\ h'[p].detail = InsufficientStockError(h[p].qty, stock[h[p].pid])
            /\ stock' = stock]_vars

\* ------------------------------------------------- specification: submit
\* clients submit a cart of the first product under an idempotency key
KeyedCarts == {<<[pid |-> 1, qty |-> q]>> : q \in Quantities}

\* two clients: a client waits for the answer before its next submission
TwoInFlight == \E q \in Procs, r \in Procs : q # r /\ ~Idle(q) /\ ~Idle(r)

StartSubmit(p) ==
    /\ ~TwoInFlight
    /\ \E k \in Keys, c \in KeyedCarts : submit_order(p, k, c, Customer)

NextSubmit == \E p \in Procs : StartSubmit(p) \/ IdempotencySteps(p) \/ CreateSteps(p)

InitSubmit == InitCatalog([p \in Products |-> MaxStock], [p \in Products |-> 1])

SpecSubmit == InitSubmit /\ [][NextSubmit]_vars

\* the requests that came with key k
WithKey(k) == {p \in Procs : h[p].key = Some(k)}

\* C21: when a submission looks its key up after the only other
\* submission with that key has been answered, it gets the same status
\* and body, and the composer does not run: no order, no reservation
C21_SameKeySameAnswer ==
    [][\A q \in Procs, r \in Procs :
         (/\ h[q].pc = "i_select" /\ h'[q] # h[q]
          /\ h[r].pc = "done" /\ h[r].key = h[q].key
          /\ WithKey(h[q].key[1]) = {q, r})
         => /\ h'[q].pc = "done"
            /\ h'[q].response = h[r].response
            /\ ~h'[q].ran
            /\ orders' = orders /\ stock' = stock]_vars

\* the second of two submissions with one key was answered from the
\* record of the first, which had created an order
C21_Witness ==
    \E q \in Procs, r \in Procs :
        /\ q # r /\ h[q].key = h[r].key /\ h[q].key # Null
        /\ h[q].pc = "done" /\ h[r].pc = "done"
        /\ h[r].ran /\ h[r].result = "ok" /\ h[r].created # {}
        /\ ~h[q].ran /\ ~h[q].early
        /\ h[q].response = h[r].response

\* C22: once the record of a key is committed no later request with the
\* key runs the operation: every request that ran it arrived before the
\* record was committed, so the executions of a key never outnumber the
\* requests that started before its first record
C22_NoExecutionAfterRecord ==
    /\ \A p \in Procs : h[p].ran => h[p].early
    /\ \A k \in Keys :
          Cardinality({p \in WithKey(k) : h[p].ran})
              <= Cardinality({p \in WithKey(k) : h[p].early})

\* a request that arrived after the record of its key was committed has
\* been answered
C22_Witness ==
    \E p \in Procs :
        /\ h[p].key # Null /\ ~h[p].early /\ h[p].pc = "done"
        /\ idem[h[p].key[1]] # Null

\* C23: the record of a key, once stored, is never overwritten; the
\* request whose insert is refused still ends normally and answers with
\* the status and body it computed itself
C23_LoserKeepsItsAnswer ==
    [][/\ \A k \in Keys : idem[k] # Null => idem'[k] = idem[k]
       /\ \A p \in Procs :
            (h[p].pc = "i_commit" /\ h'[p] # h[p])
            => /\ idem'[h[p].key[1]] # Null
               /\ h'[p].pc = "done"
               /\ h'[p].response = Some(ResponseOf(h[p]))]_vars

\* two requests with one key both ran the operation and were answered
\* differently; the record is the answer of one of them
C23_Witness ==
    \E p \in Procs, q \in Procs :
        /\ p # q /\ h[p].key = h[q].key /\ h[p].key # Null
        /\ h[p].pc = "done" /\ h[q].pc = "done"
        /\ h[p].ran /\ h[q].ran
        /\ h[p].response # h[q].response
        /\ Loads(idem[h[p].key[1]][1].response_payload) = h[p].response[1]

\* ------------------------------------------------- specification: expiry
\* submissions under idempotency keys while time passes
NextExpiry == NextSubmit \/ Tick

SpecExpiry == InitSubmit /\ [][NextExpiry]_vars

\* the age of the record of key k
RecordAge(k) == now - idem[k][1].created_at

\* C24: a submission whose key has a record older than the TTL runs the
\* business logic again.  The code fixes no TTL; the property is stated
\* for a record as old as the clock of the model allows, which is older
\* than any TTL shorter than that
C24_ExpiredRecordRunsAgain ==
    [][\A p \in Procs :
         (/\ h[p].pc = "i_select" /\ h'[p] # h[p]
          /\ idem[h[p].key[1]] # Null
          /\ RecordAge(h[p].key[1]) >= MaxTime)
         => h'[p].ran]_vars

\* ------------------------------------------------- specification: reads
\* reads of a placed order among the requests that write it
NextRead ==
    \/ \E p \in Procs : StartGetOrder(p) \/ GetOrderSteps(p)
    \/ \E p \in Procs : StartStatus(p) \/ UpdateStatusSteps(p) \/ ReleaseSteps(p)
    \/ \E p \in Procs : StartAdminCancel(p) \/ StartAdminConfirm(p) \/ AdminSteps(p)
    \/ \E p \in Procs : StartMoveStatus(p) \/ MoveSteps(p)

\* an order of one unit of the first product, pending, cached by
\* create_order
InitRead == InitPlaced(<<[pid |-> 1, qty |-> 1]>>, "pending")

SpecRead == InitRead /\ [][NextRead]_vars

\* C25: a read of an order that starts after every update of it has
\* committed and returned (no other request is under way) answers with
\* the committed order, never with an older cached one
C25_ReadAfterWrite ==
    [][\A p \in Procs :
         (/\ h[p].kind = "get_order" /\ h[p].pc = "g_cache"
          /\ h'[p].pc = "done" /\ h'[p].result = "ok"
          /\ \A q \in Procs \ {p} : Idle(q))
         => h'[p].response = Some(orders[h[p].oid])]_vars

\* ------------------------------------------------- specification: store cache
\* store pages are read while stock is reserved and released and while an
\* admin changes a price
NextStoreCache ==
    \E p \in Procs :
        \/ StartGetStoreProducts(p) \/ GetStoreProductsSteps(p)
        \/ StartGetStore(p) \/ GetStoreSteps(p)
        \/ StartReserve(p) \/ ReserveSteps(p)
        \/ StartRelease(p) \/ ReleaseSteps(p)
        \/ StartUpdateProduct(p) \/ UpdateProductSteps(p)

InitStoreCache == InitWith([p \in Products |-> MaxStock])

SpecStoreCache == InitStoreCache /\ [][NextStoreCache]_vars

\* the step of handler p is the _invalidate_product_cache call of a product
\* write
Invalidates(p) ==
    /\ h[p].pc \in {"r_inval", "l_inval", "u_inval"}
    /\ h'[p].pc # h[p].pc

\* C26: when a product write (stock reserve, stock release, update)
\* invalidates the cache, the cached product list of the owning store
\* (store:products:{id}) and the cached store record that embeds the product
\* (store:{id}) are gone along with the product's own key
C26_WriteInvalidatesStoreKeys ==
    [][\A p \in Procs :
         Invalidates(p) =>
            /\ pcache'[h[p].pid] = Null
            /\ StoreProductsKey(pstore[h[p].pid]) \notin DOMAIN scache'
            /\ StoreKey(pstore[h[p].pid]) \notin DOMAIN scache']_vars

\* ------------------------------------------------- specification: redis outage
\* the first cache call of the request has not been made yet
Unstarted(l) ==
    <<l.kind, l.pc>> \in {<<"get_order", "g_cache">>, <<"get_store_products", "sp_cache">>,
                          <<"get_store", "gs_cache">>, <<"update_product", "gp_cache">>,
                          <<"reserve", "r_select">>,
                          <<"get_all_products", "ap_cache">>,
                          <<"get_available_orders", "av_cache">>}

\* redis cannot be reached while the request of handler p runs
RedisDown(p) ==
    /\ Unstarted(h[p]) /\ ~h[p].outage /\ ~h[p].cold
    /\ h' = [h EXCEPT ![p].outage = TRUE]
    /\ UNCHANGED <<now, dbVars, pcache, ocache, scache, reqs, histVars>>

NoCachedKey == pcache = [x \in Products |-> Null] /\ ocache = NoKeys /\ scache = NoKeys

\* (history) the request of handler p starts on an empty cache
ColdStart(p) ==
    /\ Unstarted(h[p]) /\ ~h[p].outage /\ ~h[p].cold
    /\ NoCachedKey
    /\ h' = [h EXCEPT ![p].cold = TRUE]
    /\ UNCHANGED <<now, dbVars, pcache, ocache, scache, reqs, histVars>>

\* every key expires
Expire ==
    /\ AllDone /\ ~NoCachedKey
    /\ pcache' = [x \in Products |-> Null]
    /\ ocache' = NoKeys
    /\ scache' = NoKeys
    /\ UNCHANGED <<now, dbVars, h, reqs, histVars>>

\* the requests: they concern the orders, product 1 and its store
OutageRequest(p) ==
    \/ \E o \in OrderIds : get_order(p, o, Merchant)
    \/ get_store_products(p, pstore[1])
    \/ \E s \in {pstore[1], MissingStore} : get_store(p, s)
    \/ \E v \in Prices : update_product(p, 1, v)
    \/ \E q \in {1, MaxQty} : reserve_stock(p, 1, q)
    \/ get_all_products(p)
    \/ get_available_orders(p)
    \/ cancel_order(p, 1, Admin)

\* one request at a time: a read of an order, of a store or of its product
\* list, a price update or a stock reservation, with redis up or down
NextOutage ==
    \/ Expire
    \/ \E p \in Procs :
        \/ AllDone /\ OutageRequest(p)
        \/ RedisDown(p) \/ ColdStart(p)
        \/ GetOrderSteps(p) \/ GetStoreProductsSteps(p) \/ GetStoreSteps(p)
        \/ UpdateProductSteps(p) \/ ReserveSteps(p)
        \/ GetAllProductsSteps(p) \/ AvailableOrdersSteps(p)
        \/ ac_select(p) \/ ac_commit(p)

\* one order placed, pending or already confirmed
InitOutage == \E st \in {"pending", "confirmed"} : InitPlaced(<<[pid |-> 1, qty |-> 1]>>, st)

SpecOutage == InitOutage /\ [][NextOutage]_vars

Cacheless(l) == l.outage \/ l.cold

\* what the source of truth alone makes of the request that handler p is
\* about to finish
FromSourceOfTruth(p) ==
    LET l == h[p]
        r == h'[p]
    IN CASE l.kind = "get_order" ->
              IF ~Exists(l.oid) \/ HiddenInDb(orders[l.oid], l.user)
              THEN r.result = "NotFound"
              ELSE r.result = "ok" /\ r.response = Some(orders[l.oid])
         [] l.kind = "get_store_products" ->
              r.result = "ok" /\ r.response = Some(ProductsOf(l.store))
         [] l.kind = "get_store" ->
              IF l.store \notin Stores THEN r.result = "NotFound"
              ELSE r.result = "ok" /\ r.response = Some(_serialize_store(l.store))
         [] l.kind = "update_product" ->
              r.result = "ok" /\ price'[l.pid] = l.value
         [] l.kind = "get_all_products" ->
              r.result = "ok" /\ r.response = Some(AllRows)
         [] l.kind = "get_available_orders" ->
              r.result = "ok" /\ r.response = Some(RowsOf(AvailableUpTo(Len(orders))))
         [] l.kind = "reserve" ->
              /\ r.result = (IF l.pid \notin Products THEN "NotFound"
                             ELSE IF r.reserved[l.pid] = l.qty THEN "ok"
                             ELSE "InsufficientStock")
              /\ r.result = "InsufficientStock" => stock'[l.pid] < l.qty
              /\ \A x \in Products : stock'[x] = stock0[x] - resSum'[x]
         [] OTHER -> TRUE

Disturb(p) ==
    /\ h[p].pc \in {"a_select", "s_select"} /\ h[p].ord = Null /\ ~h[p].broken
    /\ h' = [h EXCEPT ![p].broken = TRUE]
    /\ UNCHANGED <<now, dbVars, pcache, ocache, scache, reqs, histVars>>

\* drivers accept order 1 while an administrator confirms or cancels it
NextNotify ==
    \E p \in Procs :
        \/ \E d \in Drivers : accept_order(p, 1, d)
        \/ \E st \in {"confirmed", "cancelled"} : update_status(p, 1, Admin, st)
        \/ Disturb(p)
        \/ AcceptSteps(p) \/ UpdateStatusSteps(p) \/ ReleaseSteps(p)

SpecNotify == InitOutage /\ [][NextNotify]_vars

PostCommit == {"a_post", "s_post"}
SideEffects == PostCommit \cup {"l_inval", "l_cache"}

C29_CancelClearsAssignment ==
    [][\A o \in DOMAIN orders :
         (orders[o].status # "cancelled" /\ orders'[o].status = "cancelled")
         => (orders'[o].driver_id = 0 /\ orders'[o].assigned_at = -1)]_vars

\* C30: at the commit that creates an order, the price_at_purchase of each
\* of its items is the price that the products table holds for the product
\* at that moment, whatever the cache holds and whatever price updates are
\* under way
C30_PriceSnapshotIsCurrent ==
    [][\A o \in DOMAIN orders' \ DOMAIN orders :
         \A i \in DOMAIN orders'[o].items :
            orders'[o].items[i].price_at_purchase = price'[orders'[o].items[i].product_id]]_vars

\* C31: once every reserve and release call has finished, the cached entry
\* of a product, if there is one, carries the stock that the products table
\* holds
C31_CachedStockIsCurrent ==
    AllDone => \A x \in Products : pcache[x] # Null => pcache[x][1].stock = stock[x]

\* C32: the rows a reclaim sweep selects are exactly the orders whose
\* assignment_expired property is true at the time of the sweep
C32_SweepAgreesWithExpired ==
    [][\A p \in Procs :
         (h[p].pc = "rc_select" /\ h'[p].pc # "rc_select")
         => \A o \in DOMAIN orders :
               SweepSelects(orders[o], now) <=> assignment_expired(orders[o], now)]_vars

\* ------------------------------------------------- the delivery limit
MAX_CONCURRENT_DELIVERIES == 3

\* check_driver_availability: the driver's orders in status assigned or
\* in_transit are counted and compared with the limit
check_driver_availability(driver) ==
    Cardinality({o \in DOMAIN orders :
                    /\ orders[o].driver_id = driver
                    /\ orders[o].status \in {"assigned", "in_transit"}})
        < MAX_CONCURRENT_DELIVERIES

\* POST /drivers/accept-order/{id}: require_driver
driver_accept_order(p, o, u) ==
    /\ Begin(p, LET l == [IdleLocal EXCEPT !.kind = "driver_accept", !.user = u, !.oid = o] IN
                IF RoleOf(u) # "driver" THEN Finish(l, "Forbidden")
                ELSE [l EXCEPT !.pc = "da_check"])
    /\ UNCHANGED <<now, dbVars, pcache, ocache, scache, histVars>>

\* the router asks check_driver_availability, then calls
\* AsyncDriverService.accept_order, which runs accept_order_atomic
da_check(p) ==
    LET l == h[p] IN
    /\ l.pc = "da_check"
    /\ h' = [h EXCEPT ![p] =
            IF check_driver_availability(l.user) THEN [l EXCEPT !.pc = "a_select"]
            ELSE Finish(l, "BadRequest")]
    /\ UNCHANGED <<now, dbVars, pcache, ocache, scache, reqs, histVars>>

\* AsyncDriverService.accept_order: _invalidate_driver_cache
da_inval(p) ==
    LET l == h[p] IN
    /\ l.pc = "da_inval"
    /\ scache' = Redis(l, scache, CacheDelete(scache, AvailableOrdersKey))
    /\ h' = [h EXCEPT ![p] = Finish(l, "ok")]
    /\ UNCHANGED <<now, dbVars, pcache, ocache, reqs, histVars>>

\* ------------------------------------------------- specification: limit
\* the orders of the scenario: the first MAX_CONCURRENT_DELIVERIES - 1 are
\* assigned to driver 1, the others wait for a driver; each holds one unit
Waiting == MaxRequests
LimitOrders == 1..(MAX_CONCURRENT_DELIVERIES - 1 + Waiting)
LimitProduct(o) == ((o - 1) % NumProducts) + 1
LimitTaken(x) == Cardinality({o \in LimitOrders : LimitProduct(o) = x})
LimitOrder(o) ==
    LET placed == PlacedOrder(<<[pid |-> LimitProduct(o), qty |-> 1]>>, "confirmed") IN
    IF o < MAX_CONCURRENT_DELIVERIES
    THEN [placed EXCEPT !.status = "assigned", !.driver_id = 1, !.assigned_at = 0]
    ELSE placed

InitLimit ==
    /\ stock0 = [x \in Products |-> MaxStock]
    /\ stock = [x \in Products |-> MaxStock - LimitTaken(x)]
    /\ pstore = [x \in Products |-> 1]
    /\ price = [x \in Products |-> InitPrice(x)]
    /\ now = 0
    /\ orders = [o \in LimitOrders |-> LimitOrder(o)]
    /\ idem = [k \in Keys |-> Null]
    /\ ocache = NoKeys
    /\ scache = NoKeys
    /\ pcache = [x \in Products |-> Null]
    /\ h = [p \in Procs |-> IdleLocal]
    /\ reqs = 0
    /\ resSum = [x \in Products |-> LimitTaken(x)]
    /\ relSum = [x \in Products |-> 0]

NextLimit ==
    \E p \in Procs :
        \/ \E o \in DOMAIN orders : accept_order(p, o, 1) \/ driver_accept_order(p, o, 1)
        \/ da_check(p) \/ AcceptSteps(p) \/ da_inval(p)

\* driver 1, with two deliveries in hand, sends accept requests on both routes
SpecLimit == InitLimit /\ [][NextLimit]_vars

\* C33: in every state the orders that have a given driver and are in
\* status assigned or in_transit number at most three
C33_AtMostThreeDeliveries ==
    \A d \in Drivers :
        Cardinality({o \in DOMAIN orders :
                        /\ orders[o].driver_id = d
                        /\ orders[o].status \in {"assigned", "in_transit"}})
            <= MAX_CONCURRENT_DELIVERIES

\* the units of product x in a list of order items
RECURSIVE QuantityOf(_, _)
QuantityOf(items, x) ==
    IF items = <<>> THEN 0
    ELSE (IF items[Len(items)].product_id = x THEN items[Len(items)].quantity ELSE 0)
         + QuantityOf(SubSeq(items, 1, Len(items) - 1), x)

\* the units of product x in the first n orders that are not cancelled
RECURSIVE OnOrder(_, _)
OnOrder(n, x) ==
    IF n = 0 THEN 0
    ELSE (IF orders[n].status # "cancelled" THEN QuantityOf(orders[n].items, x) ELSE 0)
         + OnOrder(n - 1, x)

\* C34: whenever no request is in progress, the stock of every product plus
\* the quantities of its items in the orders that are not cancelled equals
\* the product's initial stock
C34_StockConserved ==
    AllDone => \A x \in Products : stock[x] + OnOrder(Len(orders), x) = stock0[x]

\* C35: in every state an order has no driver when its status is pending,
\* confirmed or cancelled, and has a driver when its status is assigned,
\* picked_up, in_transit or delivered
C35_DriverMatchesStatus ==
    \A o \in DOMAIN orders :
        (orders[o].driver_id = 0) <=> (orders[o].status \in {"pending", "confirmed", "cancelled"})

\* request p was answered from the record of its key, without call_next
Replayed(p) ==
    h[p].pc = "done" /\ h[p].key # Null /\ ~h[p].ran /\ h[p].response # Null

\* request q ran create_order under the key of p and got the answer that p
\* was given
ComputedFor(q, p) ==
    /\ q # p /\ h[q].pc = "done" /\ h[q].ran
    /\ h[q].key = h[p].key /\ h[q].response = h[p].response

\* C36: a request that was answered from a stored record has the user and
\* the cart of the request for which that answer was computed
C36_ReplayOnlyToSameRequest ==
    \A p \in Procs, q \in Procs :
        (Replayed(p) /\ ComputedFor(q, p))
        => (h[p].user = h[q].user /\ h[p].cart = h[q].cart)

\* ------------------------------------------------- specification: retry
\* the first product is sold out or fully stocked; reqs starts one below
\* zero so that the scenario holds a submission, a release and a retry
InitRetry ==
    /\ \E first \in {0, MaxStock} :
          stock = [x \in Products |-> IF x \in LedgerProducts THEN first ELSE MaxStock]
    /\ stock0 = stock
    /\ pstore = [x \in Products |-> 1]
    /\ price = [x \in Products |-> InitPrice(x)]
    /\ now = 0
    /\ orders = <<>>
    /\ idem = [k \in Keys |-> Null]
    /\ pcache = [x \in Products |-> Null]
    /\ ocache = NoKeys
    /\ scache = NoKeys
    /\ h = [p \in Procs |-> IdleLocal]
    /\ reqs = -1
    /\ resSum = [x \in Products |-> 0]
    /\ relSum = [x \in Products |-> 0]

RetryKey == CHOOSE k \in Keys : TRUE

StartRetry(p) ==
    /\ AllDone
    /\ \E c \in KeyedCarts : submit_order(p, RetryKey, c, Customer)

\* units come back once the first submission has been answered
StartRestock(p) == idem[RetryKey] # Null /\ StartRelease(p)

NextRetry ==
    \E p \in Procs :
        \/ StartRetry(p) \/ IdempotencySteps(p) \/ CreateSteps(p)
        \/ StartRestock(p) \/ ReleaseSteps(p)

\* a client submits and retries under one key while stock comes back
SpecRetry == InitRetry /\ [][NextRetry]_vars

\* the stored answer of key k
StoredAnswer(k) == Loads(idem[k][1].response_payload)

\* C37: a keyed submission that ends with an error leaves a record with
\* that error, as one that succeeds leaves a record of its success; and a
\* request that finds the record of an error is answered with the stored
\* error without running create_order, whatever the stock then is
C37_FailureIsReplayed ==
    [][\A p \in Procs :
         /\ (h[p].pc = "i_commit" /\ h'[p].pc = "done" /\ idem[h[p].key[1]] = Null)
            => /\ idem'[h[p].key[1]] # Null
               /\ Loads(idem'[h[p].key[1]][1].response_payload) = ResponseOf(h[p])
         /\ (/\ h[p].pc = "i_select" /\ h'[p].pc # "i_select"
             /\ idem[h[p].key[1]] # Null
             /\ StoredAnswer(h[p].key[1]).status_code # 200)
            => /\ h'[p].pc = "done" /\ ~h'[p].ran
               /\ h'[p].response = Some(StoredAnswer(h[p].key[1]))
               /\ stock' = stock /\ orders' = orders]_vars

\* C37 witness: a retry was answered with the stored insufficient-stock
\* error although the stock now covers its cart
C37_Witness ==
    \E p \in Procs :
        /\ Replayed(p)
        /\ h[p].response[1].status_code = 400
        /\ stock[h[p].cart[1].pid] >= h[p].cart[1].qty

\* C38: a get_order answered from the cached order refuses the user with
\* NotFound exactly when the checks of the database path refuse the same
\* user on the same order
C38_SameVisibilityFromCache ==
    [][\A p \in Procs :
         (/\ h[p].pc = "g_cache" /\ h'[p].pc # "g_cache"
          /\ Hit(h[p], h[p].oid \in DOMAIN ocache))
         => ((h'[p].result = "NotFound")
               <=> HiddenInDb(ocache[h[p].oid], h[p].user))]_vars

\* ------------------------------------------------- specification: available
\* confirmed orders of one unit each wait for a driver; the id list is
\* cached by an earlier read, or has expired
WaitingOrders == 1..Waiting
WaitingTaken(x) == Cardinality({o \in WaitingOrders : LimitProduct(o) = x})

InitAvailable ==
    /\ stock0 = [x \in Products |-> MaxStock]
    /\ stock = [x \in Products |-> MaxStock - WaitingTaken(x)]
    /\ pstore = [x \in Products |-> 1]
    /\ price = [x \in Products |-> InitPrice(x)]
    /\ now = 0
    /\ orders = [o \in WaitingOrders |->
                    PlacedOrder(<<[pid |-> LimitProduct(o), qty |-> 1]>>, "confirmed")]
    /\ idem = [k \in Keys |-> Null]
    /\ ocache = NoKeys
    /\ \E cached \in BOOLEAN :
          scache = IF cached
                   THEN CacheSet(NoKeys, AvailableOrdersKey, [o \in WaitingOrders |-> o])
                   ELSE NoKeys
    /\ pcache = [x \in Products |-> Null]
    /\ h = [p \in Procs |-> IdleLocal]
    /\ reqs = 0
    /\ resSum = [x \in Products |-> WaitingTaken(x)]
    /\ relSum = [x \in Products |-> 0]

NextAvailable ==
    \E p \in Procs :
        \/ get_available_orders(p) \/ AvailableOrdersSteps(p)
        \/ \E o \in DOMAIN orders : accept_order(p, o, 1) \/ cancel_order(p, o, Admin)
        \/ AcceptSteps(p) \/ ac_select(p) \/ ac_commit(p)

\* drivers list the waiting orders while orders are accepted and cancelled
SpecAvailable == InitAvailable /\ [][NextAvailable]_vars

\* C39: every order in the answer of get_available_orders was, when the
\* request read its row, confirmed and without a driver, whether the ids
\* came from the cached list or from the query
C39_OnlyAvailableReturned ==
    \A p \in Procs :
        (h[p].kind = "get_available_orders" /\ h[p].pc = "done" /\ h[p].response # Null)
        => \A i \in DOMAIN h[p].response[1] :
              /\ h[p].response[1][i].status = "confirmed"
              /\ h[p].response[1][i].driver_id = 0

\* C39 witness: a read took the cached id list, found on it an order that
\* has since been accepted or cancelled, and turned to the database
C39_Witness ==
    \E p \in Procs :
        /\ h[p].kind = "get_available_orders" /\ h[p].pc = "av_db" /\ h[p].idx >= 1
        /\ \E i \in DOMAIN h[p].ids : ~Available(h[p].ids[i])
====
